---- MODULE Spec2Model ----
(***************************************************************************)
(* Model of the competitive-analysis backend (backend/agent.py,            *)
(* backend/scraper.py, backend/main.py).                                   *)
(*                                                                         *)
(* Text is modelled by TLA+ strings, handled character by character with   *)
(* Len, SubSeq and \o.  The two non-ASCII characters the source uses are   *)
(* written with ASCII stand-ins that occur nowhere else in the model:      *)
(*   Bullet  "*"  stands for U+2022 (the bullet of the narrative lines),   *)
(*   EAcute  "^"  stands for U+00E9 (the e-acute of "Cafe").               *)
(***************************************************************************)
EXTENDS Naturals, Sequences, FiniteSets, TLC

VARIABLES
    pc,             \* position of the operation under way
    business_idea,  \* input of research_competitors / the reverse parser
    location,       \* input of research_competitors / the reverse parser
    analysis_text,  \* the narrative handed to _extract_competitors_from_analysis
    text_is_str,    \* FALSE: analysis_text is not a str (None), so .split raises
    competitors,    \* the list _extract_competitors_from_analysis returns
    took_except,    \* TRUE when the parser's except branch built the list
    records,        \* round trip: the records the canonical narrative is built from
    query,          \* the query given to _generate_mock_competitors
    mock_results,   \* the narrative _generate_mock_competitors returns
    default_names,  \* the list _get_default_competitors returns
    iterations,     \* the agent executor's iteration counter
    tool_calls,     \* tool invocations (rounds) made by the run so far
    last_tool,      \* the tool of the latest round ("" before the first)
    tool_input,     \* the input the model gave that tool
    observation,    \* the observation fed back to the model
    requests,       \* the URLs the latest round requested over the network
    search_response, \* what the live request of the latest lead lookup met ("" if none)
    error_msg,      \* str(e) of the exception that escaped agent.run ("" if none)
    hit_limit,      \* TRUE when the loop ended on max_iterations
    result,         \* the dict research_competitors returns
    scrape_urls,    \* the list given to scrape_competitor_list
    fetch_outcomes, \* what the request for each of its URLs met
    scraped_data,   \* the list scrape_competitor_list returns
    scrape_events,  \* the sleeps and requests of the batch, in the order made
    run_pc,         \* concurrent runs: where each call of run_competitive_analysis is
    run_request,    \* the (business_idea, location) each call was given
    agent_memory,   \* the memory object of the agent each call built (0: none yet)
    memories,       \* the memory objects created so far, each a list of turns
    contexts,       \* the chat history each call's agent.run loaded
    run_result,     \* the dict each call returned
    analysis_results,      \* main.py: the global job store, by analysis id
    background_tasks,      \* the background task of each job: its arguments and its place
    core_results,          \* what run_competitive_analysis returned to each task
    api_key_configured,    \* whether GOOGLE_API_KEY is set in the environment
    http_response          \* the response to the latest HTTP request

inputVars  == <<business_idea, location>>
parserVars == <<analysis_text, text_is_str, competitors, took_except>>
tripVars   == <<records>>
mockVars   == <<query, mock_results, default_names>>
runVars    == <<iterations, tool_calls, last_tool, tool_input, observation,
                requests, search_response, error_msg, hit_limit, result>>

scrapeVars == <<scrape_urls, fetch_outcomes, scraped_data, scrape_events>>

runsVars == <<run_pc, run_request, agent_memory, memories, contexts, run_result>>
jobVars == <<analysis_results, background_tasks, core_results, api_key_configured,
             http_response>>

\* the variables of the page extractor, the concurrent runs and the job store
sideVars == <<scrapeVars, runsVars, jobVars>>

vars == <<pc, inputVars, parserVars, tripVars, mockVars, runVars, scrapeVars,
          runsVars, jobVars>>

-----------------------------------------------------------------------------
(* Characters and strings                                                  *)

Bullet == "*"
EAcute == "^"

Char(s, i) == SubSeq(s, i, i)

\* str.split('\n') separates on this character only
Newline == "\n"

\* the characters str.strip() removes (ASCII part)
Whitespace == {" ", "\t", "\n", "\r"}

Digits == {"0", "1", "2", "3", "4", "5", "6", "7", "8", "9"}

\* sub in s
Contains(s, sub) ==
    \E i \in 1..(Len(s) + 1 - Len(sub)) : SubSeq(s, i, i + Len(sub) - 1) = sub

\* s.find(sub) + 1: the position of the first occurrence, 0 when there is none
Find(s, sub) ==
    IF Contains(s, sub)
    THEN CHOOSE i \in 1..(Len(s) + 1 - Len(sub)) :
            /\ SubSeq(s, i, i + Len(sub) - 1) = sub
            /\ \A j \in 1..(i - 1) : SubSeq(s, j, j + Len(sub) - 1) # sub
    ELSE 0

StartsWith(s, pre) == Len(s) >= Len(pre) /\ SubSeq(s, 1, Len(pre)) = pre

\* s.split(sep, 1)[1] and s.split(sep)[0], for a sep that occurs in s
AfterFirst(s, sep) == SubSeq(s, Find(s, sep) + Len(sep), Len(s))
BeforeFirst(s, sep) == SubSeq(s, 1, Find(s, sep) - 1)

\* s.strip()
Strip(s) ==
    LET kept(i) == Char(s, i) \notin Whitespace
    IN  IF \A i \in 1..Len(s) : ~kept(i) THEN ""
        ELSE SubSeq(s,
                CHOOSE i \in 1..Len(s) : kept(i) /\ \A j \in 1..(i - 1) : ~kept(j),
                CHOOSE i \in 1..Len(s) : kept(i) /\ \A j \in (i + 1)..Len(s) : ~kept(j))

\* s.split(c) for a single character c: one more piece than there are separators
SplitChar(s, c) ==
    LET sep == {i \in 1..Len(s) : Char(s, i) = c}
        n   == Cardinality(sep)
        \* position of the k-th separator; 0 and Len(s)+1 close the ends
        at(k) == IF k = 0 THEN 0
                 ELSE IF k = n + 1 THEN Len(s) + 1
                 ELSE CHOOSE i \in sep : Cardinality({j \in sep : j < i}) = k - 1
    IN  [k \in 1..(n + 1) |-> SubSeq(s, at(k - 1) + 1, at(k) - 1)]

\* s.split('\n')
SplitLines(s) == SplitChar(s, Newline)

\* s.replace(a, b) for single characters a, b
ReplaceChar(s, a, b) ==
    LET F[i \in 0..Len(s)] ==
            IF i = 0 THEN ""
            ELSE F[i - 1] \o (IF Char(s, i) = a THEN b ELSE Char(s, i))
    IN  F[Len(s)]

\* chr(10).join(lines)
JoinLines(lines) ==
    LET F[i \in 0..Len(lines)] ==
            IF i = 0 THEN ""
            ELSE IF i = 1 THEN lines[1]
            ELSE F[i - 1] \o Newline \o lines[i]
    IN  F[Len(lines)]

-----------------------------------------------------------------------------
(* str.lower(): the ASCII capitals, and nothing else, change               *)

UpperToLower ==
    [c \in {"A","B","C","D","E","F","G","H","I","J","K","L","M",
            "N","O","P","Q","R","S","T","U","V","W","X","Y","Z"} |->
        CASE c = "A" -> "a" [] c = "B" -> "b" [] c = "C" -> "c" [] c = "D" -> "d"
          [] c = "E" -> "e" [] c = "F" -> "f" [] c = "G" -> "g" [] c = "H" -> "h"
          [] c = "I" -> "i" [] c = "J" -> "j" [] c = "K" -> "k" [] c = "L" -> "l"
          [] c = "M" -> "m" [] c = "N" -> "n" [] c = "O" -> "o" [] c = "P" -> "p"
          [] c = "Q" -> "q" [] c = "R" -> "r" [] c = "S" -> "s" [] c = "T" -> "t"
          [] c = "U" -> "u" [] c = "V" -> "v" [] c = "W" -> "w" [] c = "X" -> "x"
          [] c = "Y" -> "y" [] c = "Z" -> "z"]

Lower(s) ==
    LET F[i \in 0..Len(s)] ==
            IF i = 0 THEN ""
            ELSE F[i - 1] \o (IF Char(s, i) \in DOMAIN UpperToLower
                              THEN UpperToLower[Char(s, i)] ELSE Char(s, i))
    IN  F[Len(s)]

-----------------------------------------------------------------------------
(* The Fallback Lead Generator's structured list: _get_default_competitors *)

\* competitors_db of _get_default_competitors (agent.py 470-489)
default_competitors_db ==
    [coffee |->
        [islamabad |-> <<"Espresso Lounge F-7", "Coffee Wagera", "Caf^ Lazeez",
                         "Coffee Bean & Tea Leaf", "Beans & Brews">>,
         karachi   |-> <<"Dunkin' Donuts", "Gloria Jean's Coffees",
                         "Starbucks Pakistan", "Coffee Planet", "Caf^ Barbera">>,
         lahore    |-> <<"English Tea House", "Coffee & Co", "Caf^ Zouk",
                         "Mocca Coffee", "Caf^ Aylanto">>,
         default   |-> <<"Brew & Bean Caf^", "The Daily Grind", "Espresso Corner",
                         "Caf^ Central", "Morning Roast Coffee">>],
     restaurant |->
        [islamabad |-> <<"Monal Restaurant", "Khyber Pass", "Des Pardes",
                         "Burning Brownie", "Nadia Coffee Shop">>,
         karachi   |-> <<"Do Darya", "Kolachi", "BBQ Tonight", "Caf^ Flo",
                         "Sakura Japanese Restaurant">>,
         lahore    |-> <<"Haveli Restaurant", "Cooco's Den", "Salt'n Pepper",
                         "Bundu Khan", "Caf^ Zouk">>,
         default   |-> <<"The Local Bistro", "Family Kitchen", "Taste of Home",
                         "Downtown Diner", "Fresh Garden Restaurant">>],
     gym |->
        [islamabad |-> <<"Gold's Gym", "FitnessPlanet", "Body Zone",
                         "Shape Fitness", "Oxygen Gym">>,
         karachi   |-> <<"Shapes Gymnasium", "Fitness One", "Flex Gym",
                         "Champion Gym", "Energy Fitness">>,
         lahore    |-> <<"Gym 4U", "Body Shapers", "Fitness Club", "Power Zone",
                         "Elite Fitness">>,
         default   |-> <<"PowerHouse Fitness", "Elite Gym", "FitZone",
                         "Iron Paradise", "Body Builders Gym">>]]

\* agent.py 491-498: the category of a business idea, "default" when none matches
DefaultCategory(idea) ==
    LET business_type == Lower(idea)
    IN  IF Contains(business_type, "coffee") \/ Contains(business_type, "caf^")
        THEN "coffee"
        ELSE IF Contains(business_type, "restaurant") \/ Contains(business_type, "food")
        THEN "restaurant"
        ELSE IF Contains(business_type, "gym") \/ Contains(business_type, "fitness")
        THEN "gym"
        ELSE "default"

\* agent.py 464-511
GetDefaultCompetitors(idea, loc) ==
    LET category == DefaultCategory(idea)
        location_lower == Lower(loc)
        \* competitors_db.get(category, competitors_db["coffee"])
        category_competitors ==
            IF category \in DOMAIN default_competitors_db
            THEN default_competitors_db[category]
            ELSE default_competitors_db["coffee"]
    IN  IF Contains(location_lower, "islamabad") THEN category_competitors["islamabad"]
        ELSE IF Contains(location_lower, "karachi") THEN category_competitors["karachi"]
        ELSE IF Contains(location_lower, "lahore") THEN category_competitors["lahore"]
        ELSE category_competitors["default"]

-----------------------------------------------------------------------------
(* The Fallback Lead Generator's narrative: _generate_mock_competitors     *)

LowerToUpper ==
    [c \in {UpperToLower[u] : u \in DOMAIN UpperToLower} |->
        CHOOSE u \in DOMAIN UpperToLower : UpperToLower[u] = c]

Letters == DOMAIN UpperToLower \cup DOMAIN LowerToUpper

\* str.title(): a letter after a non-letter is capitalised, every other one lowered
Title(s) ==
    LET F[i \in 0..Len(s)] ==
            IF i = 0 THEN ""
            ELSE LET c == Char(s, i)
                     first == i = 1 \/ Char(s, i - 1) \notin Letters
                 IN  F[i - 1] \o
                     (IF first /\ c \in DOMAIN LowerToUpper THEN LowerToUpper[c]
                      ELSE IF ~first /\ c \in DOMAIN UpperToLower THEN UpperToLower[c]
                      ELSE c)
    IN  F[Len(s)]

\* f"{i}" for a one-digit i
DigitStr(i) == Char("0123456789", i + 1)

\* competitors_db of _generate_mock_competitors (agent.py 143-168)
mock_competitors_db ==
    [coffee |->
        [generic   |-> <<"Brew & Bean Caf^", "The Daily Grind", "Espresso Corner",
                         "Caf^ Central", "Morning Roast Coffee">>,
         islamabad |-> <<"Espresso Lounge F-7", "Coffee Wagera", "Caf^ Lazeez",
                         "Coffee Bean & Tea Leaf", "Beans & Brews">>,
         karachi   |-> <<"Dunkin' Donuts", "Gloria Jean's Coffees",
                         "Starbucks Pakistan", "Coffee Planet", "Caf^ Barbera">>,
         lahore    |-> <<"English Tea House", "Coffee & Co", "Caf^ Zouk",
                         "Mocca Coffee", "Caf^ Aylanto">>],
     restaurant |->
        [generic   |-> <<"The Local Bistro", "Family Kitchen", "Taste of Home",
                         "Downtown Diner", "Fresh Garden Restaurant">>,
         islamabad |-> <<"Monal Restaurant", "Khyber Pass", "Des Pardes",
                         "Burning Brownie", "Nadia Coffee Shop">>,
         karachi   |-> <<"Do Darya", "Kolachi", "BBQ Tonight", "Caf^ Flo",
                         "Sakura Japanese Restaurant">>,
         lahore    |-> <<"Haveli Restaurant", "Cooco's Den", "Salt'n Pepper",
                         "Bundu Khan", "Caf^ Zouk">>],
     gym |->
        [generic   |-> <<"PowerHouse Fitness", "Elite Gym", "FitZone",
                         "Iron Paradise", "Body Builders Gym">>,
         islamabad |-> <<"Gold's Gym", "FitnessPlanet", "Body Zone",
                         "Shape Fitness", "Oxygen Gym">>,
         karachi   |-> <<"Shapes Gymnasium", "Fitness One", "Flex Gym",
                         "Champion Gym", "Energy Fitness">>,
         lahore    |-> <<"Gym 4U", "Body Shapers", "Fitness Club", "Power Zone",
                         "Elite Fitness">>],
     retail |->
        [generic   |-> <<"City Store", "Fashion Hub", "The Shopping Corner",
                         "Retail Plus", "Market Place">>,
         islamabad |-> <<"Centaurus Mall", "Giga Mall", "Safa Gold Mall",
                         "Beverly Center", "Capitol Complex">>,
         karachi   |-> <<"Dolmen Mall", "Lucky One Mall", "Ocean Mall",
                         "Park Towers", "Millennium Mall">>,
         lahore    |-> <<"Packages Mall", "Emporium Mall", "Mall of Lahore",
                         "Fortress Square", "Pace Shopping Mall">>]]

\* mutant: the retail keywords tried before the coffee keywords
MockCategory_RetailFirst(q) ==
    LET query_lower == Lower(q)
    IN  IF Contains(query_lower, "retail") \/ Contains(query_lower, "store")
           \/ Contains(query_lower, "shop")
        THEN [key |-> "retail", business_type |-> "retail store"]
        ELSE IF Contains(query_lower, "coffee") \/ Contains(query_lower, "caf^")
                \/ Contains(query_lower, "cafe")
        THEN [key |-> "coffee", business_type |-> "coffee shop"]
        ELSE IF Contains(query_lower, "restaurant") \/ Contains(query_lower, "food")
                \/ Contains(query_lower, "dining")
        THEN [key |-> "restaurant", business_type |-> "restaurant"]
        ELSE IF Contains(query_lower, "gym") \/ Contains(query_lower, "fitness")
        THEN [key |-> "gym", business_type |-> "fitness center"]
        ELSE [key |-> "coffee", business_type |-> "business"]

\* agent.py 170-185: the table key and the business_type text of a query
MockCategory(q) ==
    LET query_lower == Lower(q)
    IN  IF Contains(query_lower, "coffee") \/ Contains(query_lower, "caf^")
           \/ Contains(query_lower, "cafe")
        THEN [key |-> "coffee", business_type |-> "coffee shop"]
        ELSE IF Contains(query_lower, "restaurant") \/ Contains(query_lower, "food")
                \/ Contains(query_lower, "dining")
        THEN [key |-> "restaurant", business_type |-> "restaurant"]
        ELSE IF Contains(query_lower, "gym") \/ Contains(query_lower, "fitness")
        THEN [key |-> "gym", business_type |-> "fitness center"]
        ELSE IF Contains(query_lower, "retail") \/ Contains(query_lower, "store")
                \/ Contains(query_lower, "shop")
        THEN [key |-> "retail", business_type |-> "retail store"]
        ELSE [key |-> "coffee", business_type |-> "business"]

\* agent.py 187-197: the table key and the location text of a query
MockLocation(q) ==
    LET query_lower == Lower(q)
    IN  IF Contains(query_lower, "islamabad")
        THEN [key |-> "islamabad", location |-> "Islamabad"]
        ELSE IF Contains(query_lower, "karachi")
        THEN [key |-> "karachi", location |-> "Karachi"]
        ELSE IF Contains(query_lower, "lahore")
        THEN [key |-> "lahore", location |-> "Lahore"]
        ELSE [key |-> "generic", location |-> "local area"]

\* dict.get(key, default)
GetOr(table, key, default) == IF key \in DOMAIN table THEN table[key] ELSE default

\* agent.py 188-197: city_competitors
CityCompetitors(q) ==
    LET db_competitors == mock_competitors_db[MockCategory(q).key]
    IN  GetOr(db_competitors, MockLocation(q).key, db_competitors["generic"])

\* city_competitors[:5] (agent.py 201)
MockListLimit == 5

\* mutant: the narrative lists one name less
MockNames_FourOnly(q) == SubSeq(CityCompetitors(q), 1, 4)

\* agent.py 201: the names the narrative lists
MockNames(q) ==
    LET city_competitors == CityCompetitors(q)
    IN  SubSeq(city_competitors, 1,
               IF Len(city_competitors) < MockListLimit THEN Len(city_competitors)
               ELSE MockListLimit)

\* mutant: enumerate(..) without its start of 1
MockCompetitorList_ZeroBased(q) ==
    LET names == MockNames(q)
        business_type == MockCategory(q).business_type
        loc == MockLocation(q).location
    IN  [i \in 1..Len(names) |->
            DigitStr(i - 1) \o ". " \o names[i] \o " - Established "
            \o business_type \o " serving " \o loc]

\* agent.py 200-202: competitor_list, numbered by enumerate(.., 1)
MockCompetitorList(q) ==
    LET names == MockNames(q)
        business_type == MockCategory(q).business_type
        loc == MockLocation(q).location
    IN  [i \in 1..Len(names) |->
            DigitStr(i) \o ". " \o names[i] \o " - Established "
            \o business_type \o " serving " \o loc]

\* agent.py 204-230: the narrative block, stripped
GenerateMockCompetitors(q) ==
    LET business_type == MockCategory(q).business_type
        loc == MockLocation(q).location
    IN  Strip(
        "\nLocal " \o Title(business_type) \o " Competitors in " \o loc \o ":\n"
        \o "\n"
        \o "MAJOR COMPETITORS IDENTIFIED:\n"
        \o JoinLines(MockCompetitorList(q)) \o "\n"
        \o "\n"
        \o "MARKET ANALYSIS:\n"
        \o Bullet \o " Market Type: " \o Title(business_type) \o " industry in " \o loc \o "\n"
        \o Bullet \o " Competition Level: Moderate to High\n"
        \o Bullet \o " Market Characteristics:\n"
        \o "  - Mix of established brands and local independents\n"
        \o "  - Price competition across budget to premium segments\n"
        \o "  - Location-based competitive advantages\n"
        \o "  - Growing demand for quality service\n"
        \o "  - Digital presence becoming increasingly important\n"
        \o "\n"
        \o "COMPETITOR CATEGORIES:\n"
        \o Bullet \o " Established Chain Competitors: Well-known brands with multiple locations\n"
        \o Bullet \o " Local Independent Competitors: Family-owned businesses with loyal customer base\n"
        \o Bullet \o " Premium Competitors: Higher-end establishments targeting affluent customers\n"
        \o Bullet \o " Budget-Friendly Competitors: Cost-conscious options for price-sensitive customers\n"
        \o Bullet \o " Emerging Competitors: New entrants with modern approaches and digital focus\n"
        \o "\n"
        \o "This provides a foundation for detailed competitive analysis of the "
        \o business_type \o " market in " \o loc \o ".\n"
        \o "        ")

-----------------------------------------------------------------------------
(* Website resolution and record construction                              *)

SearchUrlPrefix == "https://www.google.com/search?q="

\* the table inside the loop of _extract_competitors_from_analysis (agent.py 426-437)
website_mapping ==
    [n \in {"Espresso Lounge F-7", "Coffee Wagera", "Caf^ Lazeez",
            "Coffee Bean & Tea Leaf", "Beans & Brews", "Dunkin' Donuts",
            "Gloria Jean's Coffees", "Starbucks Pakistan", "Monal Restaurant",
            "Gold's Gym"} |->
        CASE n = "Espresso Lounge F-7"    -> "https://www.facebook.com/EspressoLoungeF7"
          [] n = "Coffee Wagera"          -> "https://www.facebook.com/coffeewagera"
          [] n = "Caf^ Lazeez"            -> "https://www.facebook.com/cafelazeez"
          [] n = "Coffee Bean & Tea Leaf" -> "https://www.coffeebean.com.pk"
          [] n = "Beans & Brews"          -> "https://www.facebook.com/beansandbrewsislamabad"
          [] n = "Dunkin' Donuts"         -> "https://www.dunkindonuts.com.pk"
          [] n = "Gloria Jean's Coffees"  -> "https://www.gloriajeans.com.pk"
          [] n = "Starbucks Pakistan"     -> "https://www.starbucks.com.pk"
          [] n = "Monal Restaurant"       -> "https://www.monal.pk"
          [] n = "Gold's Gym"             -> "https://www.goldsgym.com.pk"]

\* the table of _get_default_competitors_as_objects (agent.py 519-554)
default_website_mapping ==
    [n \in {"Espresso Lounge F-7", "Coffee Wagera", "Caf^ Lazeez",
            "Coffee Bean & Tea Leaf", "Beans & Brews", "Dunkin' Donuts",
            "Gloria Jean's Coffees", "Starbucks Pakistan", "Coffee Planet",
            "Caf^ Barbera", "English Tea House", "Coffee & Co", "Caf^ Zouk",
            "Mocca Coffee", "Caf^ Aylanto", "Monal Restaurant", "Khyber Pass",
            "Des Pardes", "Burning Brownie", "Nadia Coffee Shop", "Gold's Gym",
            "FitnessPlanet", "Body Zone", "Shape Fitness", "Oxygen Gym"} |->
        CASE n = "Espresso Lounge F-7"    -> "https://www.facebook.com/EspressoLoungeF7"
          [] n = "Coffee Wagera"          -> "https://www.facebook.com/coffeewagera"
          [] n = "Caf^ Lazeez"            -> "https://www.facebook.com/cafelazeez"
          [] n = "Coffee Bean & Tea Leaf" -> "https://www.coffeebean.com.pk"
          [] n = "Beans & Brews"          -> "https://www.facebook.com/beansandbrewsislamabad"
          [] n = "Dunkin' Donuts"         -> "https://www.dunkindonuts.com.pk"
          [] n = "Gloria Jean's Coffees"  -> "https://www.gloriajeans.com.pk"
          [] n = "Starbucks Pakistan"     -> "https://www.starbucks.com.pk"
          [] n = "Coffee Planet"          -> "https://www.facebook.com/coffeeplanetpk"
          [] n = "Caf^ Barbera"           -> "https://www.barbera.com.pk"
          [] n = "English Tea House"      -> "https://www.facebook.com/englishteahousepk"
          [] n = "Coffee & Co"            -> "https://www.facebook.com/coffeeandco.pk"
          [] n = "Caf^ Zouk"              -> "https://www.cafezouk.com"
          [] n = "Mocca Coffee"           -> "https://www.facebook.com/moccacoffeepk"
          [] n = "Caf^ Aylanto"           -> "https://www.facebook.com/cafeaylanto"
          [] n = "Monal Restaurant"       -> "https://www.monal.pk"
          [] n = "Khyber Pass"            -> "https://www.facebook.com/khyberpassrestaurant"
          [] n = "Des Pardes"             -> "https://www.facebook.com/despardesrestaurant"
          [] n = "Burning Brownie"        -> "https://www.burningbrownie.com"
          [] n = "Nadia Coffee Shop"      -> "https://www.facebook.com/nadiacoffeeshop"
          [] n = "Gold's Gym"             -> "https://www.goldsgym.com.pk"
          [] n = "FitnessPlanet"          -> "https://www.facebook.com/fitnessplanetpk"
          [] n = "Body Zone"              -> "https://www.facebook.com/bodyzoneislamabad"
          [] n = "Shape Fitness"          -> "https://www.facebook.com/shapefitnessclub"
          [] n = "Oxygen Gym"             -> "https://www.facebook.com/oxygengymislamabad"]

\* f"https://www.google.com/search?q={name.replace(' ', '+')}" (agent.py 439, 558)
SearchUrl(name) == SearchUrlPrefix \o ReplaceChar(name, " ", "+")

\* mutant: website_mapping.get(name, "") -- no search URL on a miss
ResolveWebsite_NoSearchUrl(name) ==
    IF name \in DOMAIN website_mapping THEN website_mapping[name] ELSE ""

\* website_mapping.get(name, <search url>) on the parser's normal path (agent.py 439)
ResolveWebsite(name) ==
    IF name \in DOMAIN website_mapping THEN website_mapping[name] ELSE SearchUrl(name)

\* website_mapping.get(name, <search url>) of the exception fallback (agent.py 558)
ResolveDefaultWebsite(name) ==
    IF name \in DOMAIN default_website_mapping
    THEN default_website_mapping[name] ELSE SearchUrl(name)

\* the competitor dict both paths build (agent.py 441-452, 560-571)
CompetitorRecord(name, website, idea, loc, i) ==
    [business_name   |-> name,
     url             |-> website,
     description     |-> name \o " is a well-known " \o idea \o " business in " \o loc \o ".",
     services        |-> "Professional " \o idea \o " services",
     contact_info    |-> "Visit website for contact details",
     address         |-> loc,
     pricing_info    |-> "Visit website for current pricing",
     category        |-> idea,
     location        |-> loc,
     competitor_rank |-> i]

\* agent.py 513-574: every default name becomes a record, ranked from 1
GetDefaultCompetitorsAsObjects(idea, loc) ==
    LET competitor_names == GetDefaultCompetitors(idea, loc)
    IN  [i \in 1..Len(competitor_names) |->
            CompetitorRecord(competitor_names[i],
                             ResolveDefaultWebsite(competitor_names[i]), idea, loc, i)]

-----------------------------------------------------------------------------
(* The Narrative-to-Record Reverse Parser                                  *)

\* competitor_names[:5] (agent.py 424)
MaxCompetitors == 5

\* len(competitor_name) > 2 (agent.py 416)
MinNameLen == 2

\* agent.py 399: the stripped line is non-empty and starts with a digit or the bullet
IsCandidateLine(line) ==
    line # "" /\ (Char(line, 1) \in Digits \/ StartsWith(line, Bullet))

\* agent.py 401-406: the text after the first ". ", else after the first bullet-space
HasNamePart(line) == Contains(line, ". ") \/ Contains(line, Bullet \o " ")

\* mutant: the bullet-space test made before the ". " test
NamePart_BulletFirst(line) ==
    IF Contains(line, Bullet \o " ") THEN AfterFirst(line, Bullet \o " ")
    ELSE AfterFirst(line, ". ")

NamePart(line) ==
    IF Contains(line, ". ") THEN AfterFirst(line, ". ")
    ELSE AfterFirst(line, Bullet \o " ")

\* mutant: the " (" test made before the " - " test
CleanName_ParenFirst(name_part) ==
    IF Contains(name_part, " (") THEN Strip(BeforeFirst(name_part, " ("))
    ELSE IF Contains(name_part, " - ") THEN Strip(BeforeFirst(name_part, " - "))
    ELSE Strip(name_part)

\* agent.py 409-414: cut the appended description off
CleanName(name_part) ==
    IF Contains(name_part, " - ") THEN Strip(BeforeFirst(name_part, " - "))
    ELSE IF Contains(name_part, " (") THEN Strip(BeforeFirst(name_part, " ("))
    ELSE Strip(name_part)

\* agent.py 416: the name is kept
NameSurvives(competitor_name) ==
    competitor_name # "" /\ Len(competitor_name) > MinNameLen

\* agent.py 395-417 for one line: <<name>> when the line yields a name, else << >>
LineNames(raw_line) ==
    LET line == Strip(raw_line)
        competitor_name == CleanName(NamePart(line))
    IN  IF IsCandidateLine(line) /\ HasNamePart(line) /\ NameSurvives(competitor_name)
        THEN <<competitor_name>>
        ELSE <<>>

\* agent.py 391-417: the names of all lines, in line order
ExtractNames(text) ==
    LET lines == SplitLines(text)
        F[i \in 0..Len(lines)] ==
            IF i = 0 THEN <<>> ELSE F[i - 1] \o LineNames(lines[i])
    IN  F[Len(lines)]

\* mutant: no default names when no name was found
NamesOrDefault_NoFallback(text, idea, loc) == ExtractNames(text)

\* mutant: the default names are looked up with the two arguments swapped
NamesOrDefault_Swapped(text, idea, loc) ==
    IF ExtractNames(text) = <<>> THEN GetDefaultCompetitors(loc, idea)
    ELSE ExtractNames(text)

\* agent.py 419-421: the default names when no name was found
NamesOrDefault(text, idea, loc) ==
    IF ExtractNames(text) = <<>> THEN GetDefaultCompetitors(idea, loc)
    ELSE ExtractNames(text)

\* names[:n]
Take(names, n) == SubSeq(names, 1, IF Len(names) < n THEN Len(names) ELSE n)

\* mutant: the [:5] slice forgotten
BuildCompetitors_NoLimit(names, idea, loc) ==
    [i \in 1..Len(names) |->
        CompetitorRecord(names[i], ResolveWebsite(names[i]), idea, loc, i)]

\* mutant: enumerate(..) without its start of 1
BuildCompetitors_ZeroBased(names, idea, loc) ==
    LET kept == Take(names, MaxCompetitors)
    IN  [i \in 1..Len(kept) |->
            CompetitorRecord(kept[i], ResolveWebsite(kept[i]), idea, loc, i - 1)]

\* agent.py 424-453: a record per name of competitor_names[:5], ranked by enumerate(.., 1)
BuildCompetitors(names, idea, loc) ==
    LET kept == Take(names, MaxCompetitors)
    IN  [i \in 1..Len(kept) |->
            CompetitorRecord(kept[i], ResolveWebsite(kept[i]), idea, loc, i)]

\* agent.py 385-462; is_str = FALSE is an analysis_text that is no str, on which
\* analysis_text.split raises and the except branch answers
ExtractCompetitorsFromAnalysis(text, is_str, idea, loc) ==
    IF is_str THEN BuildCompetitors(NamesOrDefault(text, idea, loc), idea, loc)
    ELSE GetDefaultCompetitorsAsObjects(idea, loc)


-----------------------------------------------------------------------------
(* The tools the agent may call                                            *)

\* the URL of the live request (agent.py 107), for queries of words and blanks
LiveSearchUrl(q) == "https://duckduckgo.com/html/?q=" \o ReplaceChar(q, " ", "+")

\* what requests.get and raise_for_status (agent.py 114-115) can meet: a 2xx
\* response, a requests.RequestException (timeout, connection error, non-2xx
\* status), or any other exception
SearchResponses == {"ok", "request_exception", "exception"}

\* mutant: the failure of the live request handed to the caller as error text
GoogleSearchTool_SurfacesFailure(q, response) ==
    IF response = "ok" THEN GenerateMockCompetitors(q)
    ELSE "Error: search failed"

\* agent.py 93-132: the try branch (117-120), the RequestException branch
\* (122-126) and the outer except branch (128-132) all answer with the
\* generator's narrative for the query
GoogleSearchTool(q, response) ==
    CASE response = "ok" -> GenerateMockCompetitors(q)
      [] response = "request_exception" -> GenerateMockCompetitors(q)
      [] OTHER -> GenerateMockCompetitors(q)

Quote == "\""

IsStringLiteral(t) ==
    /\ Len(t) >= 2
    /\ Char(t, 1) = Quote
    /\ Char(t, Len(t)) = Quote
    /\ ~Contains(SubSeq(t, 2, Len(t) - 1), Quote)

IsNumberLiteral(t) == t # "" /\ \A i \in 1..Len(t) : Char(t, i) \in Digits

\* json.loads on the JSON texts the model covers: a list of string and number
\* literals, a lone literal, {} , null, true, false; anything else is a
\* JSONDecodeError.  kind: "list", "other" (valid JSON, not a list), "error"
JsonLoads(text) ==
    LET t == Strip(text)
        inner == Strip(SubSeq(t, 2, Len(t) - 1))
        parts == SplitChar(inner, ",")
        item(k) == Strip(parts[k])
    IN  IF Len(t) >= 2 /\ Char(t, 1) = "[" /\ Char(t, Len(t)) = "]"
        THEN IF inner = "" THEN [kind |-> "list", items |-> <<>>]
             ELSE IF \A k \in 1..Len(parts) :
                        IsStringLiteral(item(k)) \/ IsNumberLiteral(item(k))
             THEN [kind |-> "list",
                   items |-> [k \in 1..Len(parts) |->
                                IF IsStringLiteral(item(k))
                                THEN [is_str |-> TRUE,
                                      text |-> SubSeq(item(k), 2, Len(item(k)) - 1)]
                                ELSE [is_str |-> FALSE, text |-> item(k)]]]
             ELSE [kind |-> "error", items |-> <<>>]
        ELSE IF IsStringLiteral(t) \/ IsNumberLiteral(t)
                \/ t \in {"{}", "null", "true", "false"}
        THEN [kind |-> "other", items |-> <<>>]
        ELSE [kind |-> "error", items |-> <<>>]

\* scraper.py 272-273
NormalizeUrl(url) ==
    IF StartsWith(url, "http://") \/ StartsWith(url, "https://") THEN url
    ELSE "https://" \o url

-----------------------------------------------------------------------------
(* The Page Extractor's field chains (scraper.py 91-253).  A parsed page   *)
(* (soup) is a record of what the BeautifulSoup queries of the code find:  *)
(*   title             <<text>> of the title tag, <<>> when there is none  *)
(*   h1                the texts of the h1 tags, in document order         *)
(*   meta_description  <<content>> of the description meta tag, <<>> when  *)
(*                     the tag or its content attribute is missing         *)
(*   sections          the texts select_one finds for the description      *)
(*                     selectors, in selector order                        *)
(*   paragraphs        the texts of the p tags, in document order          *)
(*   services          the de-duplicated service texts (unique_services)   *)
(*   phones, emails    the matches of the phone and the email pattern      *)
(*   address_texts     the texts of the address elements, in search order  *)
(*   pricing           the de-duplicated pricing texts (unique_pricing)    *)

\* sep.join(parts)
Join(parts, sep) ==
    LET F[i \in 0..Len(parts)] ==
            IF i = 0 THEN ""
            ELSE IF i = 1 THEN parts[1]
            ELSE F[i - 1] \o sep \o parts[i]
    IN  F[Len(parts)]

\* s[:n], for a string or a list
Prefix(s, n) == SubSeq(s, 1, IF Len(s) < n THEN Len(s) ELSE n)

\* s.replace(sub, ''), every occurrence from left to right
RemoveAll(s, sub) ==
    LET F[i \in 1..(Len(s) + 1)] ==
            IF i > Len(s) THEN ""
            ELSE IF i + Len(sub) - 1 <= Len(s) /\ SubSeq(s, i, i + Len(sub) - 1) = sub
            THEN (IF i + Len(sub) > Len(s) THEN "" ELSE F[i + Len(sub)])
            ELSE Char(s, i) \o (IF i = Len(s) THEN "" ELSE F[i + 1])
    IN  IF s = "" THEN "" ELSE F[1]

\* the en dash of the title pattern (U+2013)
EnDash == "~"

\* the words of the title pattern, lower-cased for re.IGNORECASE
TitleSuffixWords == {"home", "welcome", "official site"}

\* the title pattern \s*[-|EnDash]\s*(Home|Welcome|Official Site).*$ matches
\* with its separator at position d of name
TitleSuffixAt(name, d) ==
    /\ Char(name, d) \in {"-", "|", EnDash}
    /\ \E e \in d..Len(name) :
          /\ \A j \in (d + 1)..e : Char(name, j) \in Whitespace
          /\ \E w \in TitleSuffixWords :
                /\ e + Len(w) <= Len(name)
                /\ Lower(SubSeq(name, e + 1, e + Len(w))) = w
                /\ ~Contains(SubSeq(name, e + Len(w) + 1, Len(name)), Newline)

\* re.sub(pattern, '', name) (scraper.py 100): the leftmost match runs to the
\* end of name and takes the whitespace before its separator with it
CleanTitle(name) ==
    IF \E d \in 1..Len(name) : TitleSuffixAt(name, d)
    THEN LET d == CHOOSE i \in 1..Len(name) :
                     /\ TitleSuffixAt(name, i)
                     /\ \A j \in 1..(i - 1) : ~TitleSuffixAt(name, j)
             p == IF \A j \in 1..(d - 1) : Char(name, j) \in Whitespace THEN 1
                  ELSE 1 + CHOOSE j \in 1..(d - 1) :
                              /\ Char(name, j) \notin Whitespace
                              /\ \A k \in (j + 1)..(d - 1) : Char(name, k) \in Whitespace
         IN  SubSeq(name, 1, p - 1)
    ELSE name

\* urlparse(url).netloc: what stands between "//" and the next "/", "?" or "#"
Netloc(url) ==
    IF ~Contains(url, "//") THEN ""
    ELSE LET rest == AfterFirst(url, "//")
             stops == {i \in 1..Len(rest) : Char(rest, i) \in {"/", "?", "#"}}
         IN  IF stops = {} THEN rest
             ELSE SubSeq(rest, 1, (CHOOSE i \in stops : \A j \in stops : i <= j) - 1)

\* scraper.py 111-113: the name derived from the URL's domain
DomainName(url) == Title(SplitChar(RemoveAll(Netloc(url), "www."), ".")[1])

\* scraper.py 91-113: title, then the first short h1, then the domain
ExtractBusinessName(soup, url) ==
    LET name == IF soup.title = <<>> THEN "" ELSE CleanTitle(Strip(soup.title[1]))
        short(k) == Strip(soup.h1[k]) # "" /\ Len(Strip(soup.h1[k])) < 50
    IN  IF soup.title # <<>> /\ Strip(soup.title[1]) # "" /\ name # "" /\ Len(name) < 100
        THEN name
        ELSE IF \E k \in 1..Len(soup.h1) : short(k)
        THEN Strip(soup.h1[CHOOSE k \in 1..Len(soup.h1) :
                              short(k) /\ \A j \in 1..(k - 1) : ~short(j)])
        ELSE DomainName(url)

\* scraper.py 115-147: meta description, then the first substantial section,
\* then the first three paragraphs, then the sentinel
ExtractDescription(soup) ==
    LET big(k) == Len(Strip(soup.sections[k])) > 50
        first3 == Prefix(soup.paragraphs, 3)
        description_parts ==
            SelectSeq([k \in 1..Len(first3) |-> Strip(first3[k])],
                      LAMBDA text : Len(text) > 20)
    IN  IF soup.meta_description # <<>> /\ soup.meta_description[1] # ""
        THEN Strip(soup.meta_description[1])
        ELSE IF \E k \in 1..Len(soup.sections) : big(k)
        THEN Prefix(Strip(soup.sections[CHOOSE k \in 1..Len(soup.sections) :
                                           big(k) /\ \A j \in 1..(k - 1) : ~big(j)]),
                    500)
        ELSE IF description_parts # <<>>
        THEN Prefix(Join(description_parts, " "), 500)
        ELSE "No description available"

\* scraper.py 178-180
ExtractServices(soup) ==
    IF soup.services # <<>> THEN Join(Prefix(soup.services, 10), "; ")
    ELSE "Services not specified"

\* scraper.py 196-199: an email that is no noreply, no-reply or example address
IsBusinessEmail(email) ==
    \A exclude \in {"noreply", "no-reply", "example"} : ~Contains(Lower(email), exclude)

\* scraper.py 182-203
ExtractContactInfo(soup) ==
    LET business_emails == SelectSeq(soup.emails, IsBusinessEmail)
        contact_info ==
            (IF soup.phones # <<>> THEN <<"Phone: " \o soup.phones[1]>> ELSE <<>>)
            \o (IF business_emails # <<>> THEN <<"Email: " \o business_emails[1]>>
                ELSE <<>>)
    IN  IF contact_info # <<>> THEN Join(contact_info, "; ")
        ELSE "Contact information not available"

\* scraper.py 220: \d+.*[A-Za-z].*\d+ found in text, or 'street' or 'ave' in it
LooksLikeAddress(text) ==
    \/ \E i \in 1..Len(text) : \E j \in (i + 1)..Len(text) : \E k \in (j + 1)..Len(text) :
          /\ Char(text, i) \in Digits
          /\ Char(text, j) \in Letters
          /\ Char(text, k) \in Digits
          /\ ~Contains(SubSeq(text, i, k), Newline)
    \/ Contains(Lower(text), "street")
    \/ Contains(Lower(text), "ave")

\* scraper.py 205-223
ExtractAddress(soup) ==
    LET found(k) == LooksLikeAddress(Strip(soup.address_texts[k]))
    IN  IF \E k \in 1..Len(soup.address_texts) : found(k)
        THEN Prefix(Strip(soup.address_texts[CHOOSE k \in 1..Len(soup.address_texts) :
                                                found(k) /\ \A j \in 1..(k - 1) : ~found(j)]),
                    200)
        ELSE "Address not available"

\* scraper.py 251-253
ExtractPricing(soup) ==
    IF soup.pricing # <<>> THEN Join(Prefix(soup.pricing, 5), "; ")
    ELSE "Pricing information not available"

\* mutant: a failed request answered with the batch scraper's error result
ScrapeWebsite_FailureAsError(url, fetch) ==
    IF fetch.ok
    THEN [url |-> url,
          business_name |-> ExtractBusinessName(fetch.page, url),
          description |-> ExtractDescription(fetch.page),
          services |-> ExtractServices(fetch.page),
          contact_info |-> ExtractContactInfo(fetch.page),
          address |-> ExtractAddress(fetch.page),
          pricing_info |-> ExtractPricing(fetch.page)]
    ELSE [url |-> url, error |-> fetch.error,
          business_name |-> "Error",
          description |-> "Failed to scrape",
          services |-> "Not available",
          contact_info |-> "Not available",
          address |-> "Not available",
          pricing_info |-> "Not available"]

\* scraper.py 41-89: the result for one URL that scrape_website returns.
\* fetch.ok = TRUE carries the parsed page; fetch.ok = FALSE with
\* fetch.request_exception is a requests.RequestException (timeout, connection
\* error, non-2xx status) with message fetch.error
ScrapeWebsite(url, fetch) ==
    IF fetch.ok
    THEN [url |-> url,
          business_name |-> ExtractBusinessName(fetch.page, url),
          description |-> ExtractDescription(fetch.page),
          services |-> ExtractServices(fetch.page),
          contact_info |-> ExtractContactInfo(fetch.page),
          address |-> ExtractAddress(fetch.page),
          pricing_info |-> ExtractPricing(fetch.page)]
    ELSE [url |-> url, error |-> "Failed to scrape: " \o fetch.error,
          business_name |-> "Unknown",
          description |-> "Unable to extract information",
          services |-> "Unable to extract services",
          contact_info |-> "Not available",
          address |-> "Not available",
          pricing_info |-> "Not available"]

\* scraper.py 78: an exception that is no requests.RequestException is not
\* caught by scrape_website and reaches its caller
ScrapeWebsiteRaises(fetch) == ~fetch.ok /\ ~fetch.request_exception

\* mutant: the error result without its pricing_info entry
ErrorScrape_NoPricing(url, err) ==
    [url |-> url, error |-> err,
     business_name |-> "Error",
     description |-> "Failed to scrape",
     services |-> "Not available",
     contact_info |-> "Not available",
     address |-> "Not available"]

\* scraper.py 278-289: the result for a URL whose processing raised
ErrorScrape(url, err) ==
    [url |-> url, error |-> err,
     business_name |-> "Error",
     description |-> "Failed to scrape",
     services |-> "Not available",
     contact_info |-> "Not available",
     address |-> "Not available",
     pricing_info |-> "Not available"]

\* mutant: the try put around the whole loop, so the first item whose
\* processing raises ends the batch with its error result
ScrapeCompetitorList_StopsAtRaise(items, fetches) ==
    LET raises(k) == ~items[k].is_str \/ ScrapeWebsiteRaises(fetches[k])
        last == IF \E k \in 1..Len(items) : raises(k)
                THEN CHOOSE k \in 1..Len(items) :
                        raises(k) /\ \A j \in 1..(k - 1) : ~raises(j)
                ELSE Len(items)
    IN  [k \in 1..last |->
            IF ~items[k].is_str
            THEN ErrorScrape(items[k].text, "object has no attribute 'startswith'")
            ELSE IF ScrapeWebsiteRaises(fetches[k])
            THEN ErrorScrape(NormalizeUrl(items[k].text), fetches[k].error)
            ELSE ScrapeWebsite(NormalizeUrl(items[k].text), fetches[k])]

\* scraper.py 256-291: one result per item; an item that is no str raises at
\* url.startswith and gets the error result without any request
ScrapeCompetitorList(items, fetches) ==
    [k \in 1..Len(items) |->
        IF ~items[k].is_str
        THEN ErrorScrape(items[k].text, "object has no attribute 'startswith'")
        ELSE IF ScrapeWebsiteRaises(fetches[k])
        THEN ErrorScrape(NormalizeUrl(items[k].text), fetches[k].error)
        ELSE ScrapeWebsite(NormalizeUrl(items[k].text), fetches[k])]

\* WebScraper(delay=1.0) (scraper.py 266), in seconds
ScraperDelay == 1

\* mutant: one sleep at the start of the batch instead of one per request
ScrapeEvents_SingleDelay(items, fetches) ==
    LET F[k \in 0..Len(items)] ==
            IF k = 0 THEN <<[op |-> "sleep", seconds |-> ScraperDelay]>>
            ELSE IF items[k].is_str
            THEN Append(F[k - 1], [op |-> "get", url |-> NormalizeUrl(items[k].text)])
            ELSE F[k - 1]
    IN  F[Len(items)]

\* the side effects of scrape_competitor_list in the order they are made:
\* scrape_website sleeps (scraper.py 55) and then sends its request (58),
\* whatever the request meets; an item that is no str raises at
\* url.startswith (272) before scrape_website is called
ScrapeEvents(items, fetches) ==
    LET F[k \in 0..Len(items)] ==
            IF k = 0 THEN <<>>
            ELSE IF items[k].is_str
            THEN F[k - 1] \o <<[op |-> "sleep", seconds |-> ScraperDelay],
                               [op |-> "get", url |-> NormalizeUrl(items[k].text)]>>
            ELSE F[k - 1]
    IN  F[Len(items)]

\* the URLs scrape_competitor_list requests with session.get (scraper.py 58)
RequestedUrls(items) ==
    LET F[k \in 0..Len(items)] ==
            IF k = 0 THEN <<>>
            ELSE IF items[k].is_str THEN Append(F[k - 1], NormalizeUrl(items[k].text))
            ELSE F[k - 1]
    IN  F[Len(items)]

\* json.dumps(scraped_data, indent=2), reduced to url, business_name and error
JsonDumps(results) ==
    LET entry(r) == "{\"url\": \"" \o r.url \o "\", \"business_name\": \""
                    \o r.business_name \o "\""
                    \o (IF "error" \in DOMAIN r
                        THEN ", \"error\": \"" \o r.error \o "\"" ELSE "")
                    \o "}"
        F[k \in 0..Len(results)] ==
            IF k = 0 THEN ""
            ELSE IF k = 1 THEN entry(results[1])
            ELSE F[k - 1] \o ", " \o entry(results[k])
    IN  "[" \o F[Len(results)] \o "]"

\* mutant: the isinstance(urls, list) test forgotten, so valid JSON that is no
\* list is handed to the scraper as if it were one URL
ScrapeWebsitesTool_NoListCheck(urls_json, fetches) ==
    LET urls == JsonLoads(urls_json)
    IN  IF urls.kind = "error"
        THEN [output |-> "Error: Invalid JSON format for URLs", requests |-> <<>>]
        ELSE IF urls.kind # "list"
        THEN [output |-> "[]", requests |-> <<NormalizeUrl(Strip(urls_json))>>]
        ELSE [output |-> JsonDumps(ScrapeCompetitorList(urls.items, fetches)),
              requests |-> RequestedUrls(urls.items)]

\* agent.py 232-260: output is the observation, requests the URLs fetched
ScrapeWebsitesTool(urls_json, fetches) ==
    LET urls == JsonLoads(urls_json)
    IN  IF urls.kind = "error"
        THEN [output |-> "Error: Invalid JSON format for URLs", requests |-> <<>>]
        ELSE IF urls.kind # "list"
        THEN [output |-> "Error: Input must be a JSON list of URLs", requests |-> <<>>]
        ELSE [output |-> JsonDumps(ScrapeCompetitorList(urls.items, fetches)),
              requests |-> RequestedUrls(urls.items)]

\* agent.py 262-326: llm.ok = TRUE is a completion llm.text, FALSE an exception
\* with message llm.text raised by self.llm.invoke
AnalyzeCompetitorsTool(analysis_input, llm) ==
    IF llm.ok THEN llm.text ELSE "Error analyzing competitors: " \o llm.text

-----------------------------------------------------------------------------
(* research_competitors and the agent executor it runs                     *)

\* agent.py 343-344: the opening of research_prompt, the input of the turn;
\* the fixed list of steps that follows it is left out
ResearchPrompt(idea, loc) ==
    "I need you to research the competitive landscape for a " \o idea
    \o " business in " \o loc \o "."

\* mutant: one memory object made at import time and given to every agent
NewMemory_Shared(heap) == 1

\* agent.py 41: ConversationBufferMemory(...) makes a new object each time
\* __init__ runs; heap is the list of the objects made so far
NewMemory(heap) == Len(heap) + 1

\* the memory's save_context at the end of agent.run: one turn appended
SaveContext(turns, input, output) ==
    Append(turns, [input |-> input, output |-> output])

\* max_iterations=10 (agent.py 89)
max_iterations == 10

\* the executor's answer when the loop ends on max_iterations
StopMessage == "Agent stopped due to iteration limit or time limit."

\* the observation handle_parsing_errors=True feeds back (agent.py 90)
ParsingErrorObservation == "Invalid or incomplete response"

\* mutant: the bound tested with <= instead of <
ShouldContinue_OffByOne(n) == n <= max_iterations

\* the executor's loop condition
ShouldContinue(n) == n < max_iterations

\* agent.py 365-372
SuccessResult(idea, loc, run_output, competitor_data) ==
    [status |-> "success", business_idea |-> idea, location |-> loc,
     competitors |-> competitor_data, analysis |-> run_output,
     raw_response |-> run_output]

\* mutant: the analysis text without the exception's message
ErrorResult_NoDescription(idea, loc, e) ==
    [status |-> "error", error |-> e, business_idea |-> idea, location |-> loc,
     competitors |-> <<>>, analysis |-> "Error occurred during research"]

\* agent.py 374-383
ErrorResult(idea, loc, e) ==
    [status |-> "error", error |-> e, business_idea |-> idea, location |-> loc,
     competitors |-> <<>>, analysis |-> "Error occurred during research: " \o e]

NoResult == [status |-> "none"]

\* the query the research prompt tells the model to search for (agent.py 347)
PromptQuery(idea, loc) == idea \o " competitors " \o loc

-----------------------------------------------------------------------------
(* The HTTP endpoints and the background task of main.py.  A value that    *)
(* may be None or a missing key is a list of none or one element; the      *)
(* created_at stamp of a job is left out                                   *)

\* main.py 107-117: the entry start_analysis stores for a new job
NewJob(id, idea, loc) ==
    [id |-> id, status |-> "started", progress |-> "Initializing analysis...",
     business_idea |-> idea, location |-> loc, competitors |-> <<>>,
     analysis |-> "", pdf_path |-> <<>>, error |-> <<>>, completed_at |-> <<>>]

\* mutant: the job is stored and its task is never started
NewTask_NotScheduled(id, idea, loc) ==
    [place |-> "not scheduled", analysis_id |-> id, business_idea |-> idea,
     location |-> loc]

\* main.py 120-126: the task start_analysis adds, with the arguments it will
\* run with; place is where the task is in run_analysis_background
NewTask(id, idea, loc) ==
    [place |-> "queued", analysis_id |-> id, business_idea |-> idea, location |-> loc]

\* raise HTTPException(status_code=code, detail=detail)
HttpError(endpoint, id, code, detail) ==
    [endpoint |-> endpoint, id |-> id, code |-> code, detail |-> detail]

\* str(e) of an HTTPException: "{status_code}: {detail}"
HttpErrorText(code, detail) ==
    (CASE code = 400 -> "400" [] code = 404 -> "404" [] OTHER -> "500")
    \o ": " \o detail

\* main.py 93-101: the HTTPException the checks of start_analysis raise inside
\* its try block, as <<code, detail>>; <<>> when every check passes
StartChecks(idea, loc, key_configured) ==
    IF Strip(idea) = "" THEN <<400, "Business idea is required">>
    ELSE IF Strip(loc) = "" THEN <<400, "Location is required">>
    ELSE IF ~key_configured THEN <<500, "Google API key not configured on server">>
    ELSE <<>>

\* main.py 132-134: except Exception catches whatever the try block raised,
\* the HTTPExceptions of its own checks included, and raises a 500
StartFailure(raised) ==
    HttpError("analyze", 0, 500,
              "Failed to start analysis: " \o HttpErrorText(raised[1], raised[2]))

\* main.py 137-166: get_analysis_status
StatusResponse(store, id) ==
    IF id \notin DOMAIN store THEN HttpError("status", id, 404, "Analysis not found")
    ELSE [endpoint |-> "status", id |-> id, code |-> 200,
          status |-> store[id].status, progress |-> store[id].progress,
          error |-> store[id].error, completed_at |-> store[id].completed_at]

\* mutant: the stored data handed out whatever the job's status
ResultsResponse_NoStatusCheck(store, id) ==
    IF id \notin DOMAIN store THEN HttpError("results", id, 404, "Analysis not found")
    ELSE [endpoint |-> "results", id |-> id, code |-> 200,
          business_idea |-> store[id].business_idea,
          location |-> store[id].location,
          competitors |-> store[id].competitors,
          analysis |-> store[id].analysis,
          completed_at |-> store[id].completed_at]

\* main.py 169-203: get_analysis_results
ResultsResponse(store, id) ==
    IF id \notin DOMAIN store THEN HttpError("results", id, 404, "Analysis not found")
    ELSE IF store[id].status # "completed"
    THEN HttpError("results", id, 400, "Analysis not completed yet")
    ELSE IF store[id].completed_at = <<>>
    THEN HttpError("results", id, 500, "Failed to get analysis results")
    ELSE [endpoint |-> "results", id |-> id, code |-> 200,
          business_idea |-> store[id].business_idea,
          location |-> store[id].location,
          competitors |-> store[id].competitors,
          analysis |-> store[id].analysis,
          completed_at |-> store[id].completed_at]

\* main.py 231-233: the download name built from the job's inputs
ReportFilename(idea, loc) ==
    "competitive_analysis_" \o Prefix(ReplaceChar(idea, " ", "_"), 20)
    \o "_" \o Prefix(ReplaceChar(loc, " ", "_"), 15) \o ".pdf"

\* main.py 206-245: download_pdf_report; file_exists is os.path.exists(pdf_path)
DownloadResponse(store, id, file_exists) ==
    IF id \notin DOMAIN store THEN HttpError("download", id, 404, "Analysis not found")
    ELSE IF store[id].status # "completed"
    THEN HttpError("download", id, 400, "Analysis not completed yet")
    ELSE IF store[id].pdf_path = <<>> \/ ~file_exists
    THEN HttpError("download", id, 404, "PDF report not found")
    ELSE [endpoint |-> "download", id |-> id, code |-> 200,
          path |-> store[id].pdf_path[1],
          filename |-> ReportFilename(store[id].business_idea, store[id].location)]

\* pdf_generator.py 497-499: the report's path, named after the second it is made in
ReportPath(timestamp) == "reports/competitive_analysis_" \o timestamp \o ".pdf"

-----------------------------------------------------------------------------
(* Bounds and input pools                                                  *)

MaxLines == 6        \* lines of a narrative given to the parser
MaxFreeLines == 2    \* leading lines drawn from the whole LinePool
MaxRecords == 5      \* records of a canonical narrative
MaxWords == 3        \* words of a generator query
MaxUrls == 2         \* items of a URL list given to the batch scraper
MaxRuns == 2         \* concurrent calls of run_competitive_analysis
MaxJobs == 2         \* jobs accepted by start_analysis

MonalLine == "3. Monal Restaurant - Popular Pakistani cuisine"

\* a line that always yields a name; used to make narratives long
PlainLine == "7. Beans & Brews - Coffee and snacks"

LinePool ==
    {MonalLine, PlainLine,
     "* Coffee Planet (est 1999)",
     "  2. Gold's Gym  ",
     "1. AB",
     "*no space after the bullet",
     "Market Overview:",
     "4. Dr. Who - a (b)",
     "2) Paren Shop",
     "5.  - only a description",
     "* Step 1. Khyber Pass",
     "6. Coffee Planet (F-7) - Cozy"}

ParserInputs == {<<"coffee shop", "Islamabad">>, <<"Gym", "Quetta">>}

RecordPool ==
    {[business_name |-> "Monal Restaurant", description |-> "Popular Pakistani cuisine"],
     [business_name |-> "Dr. Who (Caf^) F-7", description |-> "a - b (c)"],
     [business_name |-> "AB", description |-> "short name"],
     [business_name |-> "Tea - House", description |-> "dash in name"],
     [business_name |-> " Pad ", description |-> "blanks around"],
     [business_name |-> "Gym 4U", description |-> "two lines\n9. Extra Shop"]}

WordPool == {"Coffee", "restaurant", "gym", "shop", "ISLAMABAD", "plumber"}

MockInputs ==
    {<<"coffee shop", "Islamabad">>, <<"Fitness Club", "karachi">>,
     <<"retail store", "Quetta">>}

RunInputs == {<<"coffee shop", "Islamabad">>, <<"bookstore", "Quetta">>}

ScrapeInputs ==
    {"[]", "[\"https://a.com\", 7, \"monal.pk\"]", "\"monal.pk\"", "{}",
     "monal.pk", "[\"monal.pk\""}

\* a page with a home-page title, contact data and nothing else
MonalPage ==
    [title |-> <<" Monal Restaurant | Home ">>, h1 |-> <<>>,
     meta_description |-> <<>>, sections |-> <<>>, paragraphs |-> <<>>,
     services |-> <<>>, phones |-> <<"051-111-2222">>,
     emails |-> <<"noreply@monal.pk", "info@monal.pk">>,
     address_texts |-> <<>>, pricing |-> <<>>]

PagePool == {MonalPage}

FetchOutcomes ==
    {[ok |-> TRUE, page |-> p] : p \in PagePool}
    \cup {[ok |-> FALSE, request_exception |-> TRUE, error |-> "Connection timed out"]}

\* a page on which no query of the extractor finds anything
EmptyPage ==
    [title |-> <<>>, h1 |-> <<>>, meta_description |-> <<>>, sections |-> <<>>,
     paragraphs |-> <<>>, services |-> <<>>, phones |-> <<>>, emails |-> <<>>,
     address_texts |-> <<>>, pricing |-> <<>>]

\* a page whose title is only the pattern's suffix and whose chains stop at
\* their second or third link
HeadingPage ==
    [title |-> <<"- Welcome to our site">>,
     h1 |-> <<"  ", "Khyber Pass", "Second heading">>,
     meta_description |-> <<"">>,
     sections |-> <<"About us">>,
     paragraphs |-> <<"short", " Authentic Afghan and Pakistani food ",
                      "Open every day from noon", "a fourth paragraph that is ignored">>,
     services |-> <<"Catering", "Delivery">>,
     phones |-> <<>>, emails |-> <<"noreply@example.com">>,
     address_texts |-> <<"Contact us", " 12 Jinnah Avenue, F-7 ">>,
     pricing |-> <<"Lunch $5", "Dinner $9">>]

\* a page whose meta description is all blanks
BlankMetaPage ==
    [title |-> <<"Gold's Gym">>, h1 |-> <<>>, meta_description |-> <<"   ">>,
     sections |-> <<>>, paragraphs |-> <<>>, services |-> <<>>,
     phones |-> <<>>, emails |-> <<>>, address_texts |-> <<>>, pricing |-> <<>>]

SoupPool == {MonalPage, EmptyPage, HeadingPage, BlankMetaPage}

\* what a request of the batch scraper can meet
ScrapeOutcomes ==
    {[ok |-> TRUE, page |-> p] : p \in SoupPool}
    \cup {[ok |-> FALSE, request_exception |-> TRUE, error |-> e] :
             e \in {"Connection timed out", "404 Client Error: Not Found"}}
    \cup {[ok |-> FALSE, request_exception |-> FALSE, error |-> "unexpected end of data"]}

\* the items of a URL list: strings with and without a scheme, and a number
UrlPool ==
    {[is_str |-> TRUE, text |-> "https://www.monal.pk/menu"],
     [is_str |-> TRUE, text |-> "khyber-pass.example.org"],
     [is_str |-> FALSE, text |-> "7"]}

\* what agent.run gives one of the concurrent runs: a narrative, or an
\* exception with a message
RunOutcomes ==
    {[ok |-> TRUE, text |-> StopMessage],
     [ok |-> TRUE, text |-> "1. Monal Restaurant - Popular\n* Local Roasters (new)"],
     [ok |-> FALSE, text |-> "API key not valid"]}

\* the bodies of the requests sent to start_analysis
ValidRequests == {<<"coffee shop", "Islamabad">>, <<"Gym", "Quetta">>}

BlankRequests ==
    {<<"", "Islamabad">>, <<" \t ", "Islamabad">>, <<"Gym", "">>, <<"Gym", "  ">>}

\* what run_competitive_analysis gives the background task: the success dict,
\* the error dict, or an exception raised while the agent is built
CoreOutcomes(idea, loc) ==
    {[raised |-> FALSE,
      result |-> SuccessResult(idea, loc, StopMessage,
                    ExtractCompetitorsFromAnalysis(StopMessage, TRUE, idea, loc))],
     [raised |-> FALSE, result |-> ErrorResult(idea, loc, "API key not valid")],
     [raised |-> TRUE, error |-> "model not found"]}

\* the same, tabulated for the requests start_analysis accepts
CoreOutcomesOf ==
    [request \in ValidRequests |-> CoreOutcomes(request[1], request[2])]

\* what create_competitive_analysis_report gives: the path of the report made
\* in that second, or an exception
ReportOutcomes ==
    {[raised |-> FALSE, timestamp |-> "20240101_120000"],
     [raised |-> TRUE, error |-> "Permission denied: 'reports'"]}

ErrorMessages == {"API key not valid", "Connection timed out"}

LlmOutcomes ==
    {[ok |-> TRUE, text |-> "## 1. MAJOR COMPETITORS\n1. Monal Restaurant - Popular\n2. Khyber Pass"],
     [ok |-> FALSE, text |-> "Connection timed out"]}

\* what the model may give as its final answer; it may repeat the observation
FinalAnswers(obs) ==
    {"", "The market is crowded.",
     "Top competitors:\n1. Monal Restaurant - Popular\n* Local Roasters (new)", obs}

-----------------------------------------------------------------------------
(* Initial values of the variables an operation does not use               *)

IdleParser ==
    /\ analysis_text = ""
    /\ text_is_str = TRUE
    /\ competitors = <<>>
    /\ took_except = FALSE

IdleMock ==
    /\ query = ""
    /\ mock_results = ""
    /\ default_names = <<>>

\* no HTTP response yet
NoResponse == [endpoint |-> "none"]

IdleRuns ==
    /\ run_pc = <<>>
    /\ run_request = <<>>
    /\ agent_memory = <<>>
    /\ memories = <<>>
    /\ contexts = <<>>
    /\ run_result = <<>>

IdleJobs ==
    /\ analysis_results = <<>>
    /\ background_tasks = <<>>
    /\ core_results = <<>>
    /\ api_key_configured = TRUE
    /\ http_response = NoResponse

IdleScrape ==
    /\ scrape_urls = <<>>
    /\ fetch_outcomes = <<>>
    /\ scraped_data = <<>>
    /\ scrape_events = <<>>

IdleRun ==
    /\ iterations = 0
    /\ tool_calls = 0
    /\ last_tool = ""
    /\ tool_input = ""
    /\ observation = ""
    /\ requests = <<>>
    /\ search_response = ""
    /\ error_msg = ""
    /\ hit_limit = FALSE
    /\ result = NoResult

-----------------------------------------------------------------------------
(* The reverse parser applied to narratives built line by line             *)

NumLines(text) == IF text = "" THEN 0 ELSE Len(SplitLines(text))

InitParser ==
    /\ pc = "input"
    /\ \E input \in ParserInputs : business_idea = input[1] /\ location = input[2]
    /\ analysis_text = ""
    /\ text_is_str \in BOOLEAN
    /\ competitors = <<>>
    /\ took_except = FALSE
    /\ records = <<>>
    /\ IdleMock
    /\ IdleRun
    /\ IdleScrape
    /\ IdleRuns
    /\ IdleJobs

AppendLine(l) ==
    /\ pc = "input"
    /\ text_is_str
    /\ NumLines(analysis_text) < MaxLines
    /\ l = PlainLine \/ NumLines(analysis_text) < MaxFreeLines
    /\ analysis_text' = IF analysis_text = "" THEN l ELSE analysis_text \o Newline \o l
    /\ UNCHANGED <<pc, sideVars, inputVars, text_is_str, competitors, took_except, tripVars,
                   mockVars, runVars>>

\* one call of _extract_competitors_from_analysis (agent.py 385-462)
ParseNarrative ==
    /\ pc = "input"
    /\ competitors' =
           ExtractCompetitorsFromAnalysis(analysis_text, text_is_str, business_idea, location)
    /\ took_except' = ~text_is_str
    /\ pc' = "parsed"
    /\ UNCHANGED <<sideVars, inputVars, analysis_text, text_is_str, tripVars, mockVars, runVars>>

NextParser == (\E l \in LinePool : AppendLine(l)) \/ ParseNarrative

SpecParser == InitParser /\ [][NextParser]_vars

-----------------------------------------------------------------------------
(* The round trip: records -> canonical narrative -> reverse parser        *)

\* "{rank}. {name} - {description}"
CanonicalLine(rank, r) ==
    DigitStr(rank) \o ". " \o r.business_name \o " - " \o r.description

CanonicalNarrative(recs) ==
    JoinLines([i \in 1..Len(recs) |-> CanonicalLine(i, recs[i])])

InitTrip ==
    /\ pc = "records"
    /\ business_idea = "coffee shop"
    /\ location = "Islamabad"
    /\ IdleParser
    /\ records = <<>>
    /\ IdleMock
    /\ IdleRun
    /\ IdleScrape
    /\ IdleRuns
    /\ IdleJobs

AddRecord(r) ==
    /\ pc = "records"
    /\ Len(records) < MaxRecords
    /\ records' = Append(records, r)
    /\ UNCHANGED <<pc, sideVars, inputVars, parserVars, mockVars, runVars>>

FormatRecords ==
    /\ pc = "records"
    /\ analysis_text' = CanonicalNarrative(records)
    /\ pc' = "input"
    /\ UNCHANGED <<sideVars, inputVars, text_is_str, competitors, took_except, tripVars,
                   mockVars, runVars>>

NextTrip == (\E r \in RecordPool : AddRecord(r)) \/ FormatRecords \/ ParseNarrative

SpecTrip == InitTrip /\ [][NextTrip]_vars

-----------------------------------------------------------------------------
(* The Fallback Lead Generator applied to queries built word by word       *)

NumWords(q) == IF q = "" THEN 0 ELSE Len(SplitChar(q, " "))

InitMock ==
    /\ pc = "query"
    /\ \E input \in MockInputs : business_idea = input[1] /\ location = input[2]
    /\ IdleParser
    /\ records = <<>>
    /\ IdleMock
    /\ IdleRun
    /\ IdleScrape
    /\ IdleRuns
    /\ IdleJobs

AddWord(w) ==
    /\ pc = "query"
    /\ NumWords(query) < MaxWords
    /\ query' = IF query = "" THEN w ELSE query \o " " \o w
    /\ UNCHANGED <<pc, sideVars, inputVars, parserVars, tripVars, mock_results, default_names,
                   runVars>>

\* the query research_competitors asks the agent to search for (agent.py 347)
UsePromptQuery ==
    /\ pc = "query"
    /\ query = ""
    /\ query' = PromptQuery(business_idea, location)
    /\ UNCHANGED <<pc, sideVars, inputVars, parserVars, tripVars, mock_results, default_names,
                   runVars>>

\* one call of _generate_mock_competitors(query) and one of
\* _get_default_competitors(business_idea, location)
GenerateFallback ==
    /\ pc = "query"
    /\ mock_results' = GenerateMockCompetitors(query)
    /\ default_names' = GetDefaultCompetitors(business_idea, location)
    /\ pc' = "generated"
    /\ UNCHANGED <<sideVars, inputVars, parserVars, tripVars, query, runVars>>

\* the agent's answer repeats the generator's narrative, and
\* research_competitors hands it to _extract_competitors_from_analysis
\* (agent.py 360-363)
ParseFallback ==
    /\ pc = "generated"
    /\ analysis_text' = mock_results
    /\ competitors' =
           ExtractCompetitorsFromAnalysis(mock_results, TRUE, business_idea, location)
    /\ pc' = "reparsed"
    /\ UNCHANGED <<sideVars, inputVars, text_is_str, took_except, tripVars, mockVars,
                   runVars>>

NextMock ==
    (\E w \in WordPool : AddWord(w)) \/ UsePromptQuery \/ GenerateFallback \/ ParseFallback

SpecMock == InitMock /\ [][NextMock]_vars

-----------------------------------------------------------------------------
(* Concurrent calls of run_competitive_analysis (agent.py 590-609)         *)

RunIds == 1..MaxRuns

InitRuns ==
    /\ pc = "runs"
    /\ business_idea = "" /\ location = ""
    /\ IdleParser
    /\ records = <<>>
    /\ IdleMock
    /\ IdleRun
    /\ IdleScrape
    /\ IdleJobs
    /\ run_pc = [r \in RunIds |-> "idle"]
    /\ run_request = [r \in RunIds |-> <<>>]
    /\ agent_memory = [r \in RunIds |-> 0]
    /\ memories = <<>>
    /\ contexts = [r \in RunIds |-> <<>>]
    /\ run_result = [r \in RunIds |-> NoResult]

RunsUnchanged ==
    UNCHANGED <<pc, inputVars, parserVars, tripVars, mockVars, runVars, scrapeVars,
                jobVars>>

\* run_competitive_analysis(business_idea, location, key) is called
CallRun(r, input) ==
    /\ run_pc[r] = "idle"
    /\ run_pc' = [run_pc EXCEPT ![r] = "called"]
    /\ run_request' = [run_request EXCEPT ![r] = input]
    /\ UNCHANGED <<agent_memory, memories, contexts, run_result>>
    /\ RunsUnchanged

\* agent.py 604: create_analysis_agent builds the agent and, in __init__
\* (agent.py 39-43), its memory
CreateAgent(r) ==
    /\ run_pc[r] = "called"
    /\ run_pc' = [run_pc EXCEPT ![r] = "created"]
    /\ agent_memory' = [agent_memory EXCEPT ![r] = NewMemory(memories)]
    /\ memories' = IF NewMemory(memories) > Len(memories)
                   THEN Append(memories, <<>>) ELSE memories
    /\ UNCHANGED <<run_request, contexts, run_result>>
    /\ RunsUnchanged

\* agent.py 360: agent.run starts and loads the chat history of its memory
BeginRun(r) ==
    /\ run_pc[r] = "created"
    /\ run_pc' = [run_pc EXCEPT ![r] = "running"]
    /\ contexts' = [contexts EXCEPT ![r] = memories[agent_memory[r]]]
    /\ UNCHANGED <<run_request, agent_memory, memories, run_result>>
    /\ RunsUnchanged

\* agent.py 360-383: agent.run returns a narrative, which is saved as a turn
\* of the memory and parsed into the success dict, or raises, which gives the
\* error dict and saves nothing
FinishRun(r, outcome) ==
    /\ run_pc[r] = "running"
    /\ run_pc' = [run_pc EXCEPT ![r] = "done"]
    /\ LET idea == run_request[r][1]
           loc == run_request[r][2]
           m == agent_memory[r]
       IN  IF outcome.ok
           THEN /\ memories' = [memories EXCEPT ![m] =
                       SaveContext(memories[m], ResearchPrompt(idea, loc), outcome.text)]
                /\ run_result' = [run_result EXCEPT ![r] =
                       SuccessResult(idea, loc, outcome.text,
                           ExtractCompetitorsFromAnalysis(outcome.text, TRUE, idea, loc))]
           ELSE /\ memories' = memories
                /\ run_result' = [run_result EXCEPT ![r] =
                       ErrorResult(idea, loc, outcome.text)]
    /\ UNCHANGED <<run_request, agent_memory, contexts>>
    /\ RunsUnchanged

NextRuns ==
    \E r \in RunIds :
        \/ \E input \in RunInputs : CallRun(r, input)
        \/ CreateAgent(r)
        \/ BeginRun(r)
        \/ \E outcome \in RunOutcomes : FinishRun(r, outcome)

SpecRuns == InitRuns /\ [][NextRuns]_vars

-----------------------------------------------------------------------------
(* The job store of main.py: requests and background tasks interleaved     *)

JobIds == 1..MaxJobs

\* the ids the endpoints are asked about: every job's id and one that is
\* never given out
AskedIds == 1..(MaxJobs + 1)

InitJobs ==
    /\ pc = "jobs"
    /\ business_idea = "" /\ location = ""
    /\ IdleParser
    /\ records = <<>>
    /\ IdleMock
    /\ IdleRun
    /\ IdleScrape
    /\ IdleRuns
    /\ analysis_results = <<>>
    /\ background_tasks = <<>>
    /\ core_results = <<>>
    /\ api_key_configured \in BOOLEAN
    /\ http_response = NoResponse

JobsUnchanged ==
    UNCHANGED <<pc, inputVars, parserVars, tripVars, mockVars, runVars, scrapeVars,
                runsVars, api_key_configured>>

\* main.py 79-134: POST /api/analyze.  The new id (uuid4) is the next unused one
StartAnalysis(idea, loc) ==
    LET raised == StartChecks(idea, loc, api_key_configured)
        analysis_id == Len(analysis_results) + 1
    IN  /\ pc = "jobs"
        /\ IF raised # <<>>
           THEN /\ http_response' = StartFailure(raised)
                /\ UNCHANGED <<analysis_results, background_tasks, core_results>>
           ELSE /\ analysis_id \in JobIds
                /\ analysis_results' = Append(analysis_results, NewJob(analysis_id, idea, loc))
                /\ background_tasks' =
                       Append(background_tasks, NewTask(analysis_id, idea, loc))
                /\ core_results' = Append(core_results, NoResult)
                /\ http_response' = [endpoint |-> "analyze", id |-> analysis_id,
                                     code |-> 200, status |-> "started"]
        /\ JobsUnchanged

\* main.py 137-166: GET /api/status/{analysis_id}
GetAnalysisStatus(id) ==
    /\ pc = "jobs"
    /\ http_response' = StatusResponse(analysis_results, id)
    /\ UNCHANGED <<analysis_results, background_tasks, core_results>>
    /\ JobsUnchanged

\* main.py 169-203: GET /api/results/{analysis_id}
GetAnalysisResults(id) ==
    /\ pc = "jobs"
    /\ http_response' = ResultsResponse(analysis_results, id)
    /\ UNCHANGED <<analysis_results, background_tasks, core_results>>
    /\ JobsUnchanged

\* main.py 206-245: GET /api/download/{analysis_id}
DownloadPdfReport(id, file_exists) ==
    /\ pc = "jobs"
    /\ http_response' = DownloadResponse(analysis_results, id, file_exists)
    /\ UNCHANGED <<analysis_results, background_tasks, core_results>>
    /\ JobsUnchanged

\* mutant: the task keeps no id of its own and writes to the latest job
TaskKey_Latest(task) == Len(analysis_results)

\* analysis_results[analysis_id] in run_analysis_background: the key is the
\* task's own first argument
TaskKey(task) == task.analysis_id

\* the entry the task of job id reads and writes
Entry(id) == analysis_results[TaskKey(background_tasks[id])]

\* a step of the background task of job id: the task moves from one place to
\* the next and the entry analysis_results[analysis_id] gets the given fields
BackgroundStep(id, from, to, entry) ==
    /\ pc = "jobs"
    /\ id \in DOMAIN background_tasks
    /\ background_tasks[id].place = from
    /\ background_tasks' = [background_tasks EXCEPT ![id].place = to]
    /\ analysis_results' =
           [analysis_results EXCEPT ![TaskKey(background_tasks[id])] = entry]
    /\ UNCHANGED http_response
    /\ JobsUnchanged

\* mutant: the failure recorded without its message
FailedJob_NoMessage(job, error) == [job EXCEPT !.status = "failed"]

\* main.py 306-309: the except branch of the task
FailedJob(job, error) == [job EXCEPT !.status = "failed", !.error = <<error>>]

\* mutant: the return after the core's error forgotten, so the task goes on
PlaceAfterCoreError_NoReturn == "core_returned"

\* main.py 272: the return after the core's error ends the task
PlaceAfterCoreError == "finished"

\* mutant: the final update without the report's path
CompletedJob_NoPath(job, pdf_path, completed_at) ==
    [job EXCEPT !.status = "completed",
                !.progress = "Analysis completed successfully!",
                !.completed_at = <<completed_at>>]

\* main.py 299-302: the final update of the task
CompletedJob(job, pdf_path, completed_at) ==
    [job EXCEPT !.status = "completed",
                !.progress = "Analysis completed successfully!",
                !.pdf_path = <<pdf_path>>,
                !.completed_at = <<completed_at>>]

\* main.py 263-264
BgSearching(id) ==
    /\ id \in DOMAIN background_tasks
    /\ BackgroundStep(id, "queued", "searching",
           [Entry(id) EXCEPT !.status = "searching",
                              !.progress = "Searching for competitors..."])
    /\ UNCHANGED core_results

\* main.py 267-272: the core run returns or raises; an error dict ends the task
BgRunCore(id) ==
    /\ id \in DOMAIN background_tasks
    /\ background_tasks[id].place = "searching"
    /\ \E outcome \in CoreOutcomesOf[<<background_tasks[id].business_idea,
                                       background_tasks[id].location>>] :
          IF outcome.raised
          THEN /\ BackgroundStep(id, "searching", "finished",
                      FailedJob(Entry(id), outcome.error))
               /\ UNCHANGED core_results
          ELSE IF outcome.result.status = "error"
          THEN /\ BackgroundStep(id, "searching", PlaceAfterCoreError,
                      FailedJob(Entry(id), outcome.result.error))
               /\ core_results' = [core_results EXCEPT ![id] = outcome.result]
          ELSE /\ BackgroundStep(id, "searching", "core_returned", Entry(id))
               /\ core_results' = [core_results EXCEPT ![id] = outcome.result]

\* main.py 275-276
BgAnalyzing(id) ==
    /\ id \in DOMAIN background_tasks
    /\ BackgroundStep(id, "core_returned", "analyzing",
           [Entry(id) EXCEPT !.status = "analyzing",
                              !.progress = "Analyzing competitor data..."])
    /\ UNCHANGED core_results

\* main.py 279-280
BgStoreResults(id) ==
    /\ id \in DOMAIN background_tasks
    /\ BackgroundStep(id, "analyzing", "stored",
           [Entry(id) EXCEPT !.competitors = core_results[id].competitors,
                              !.analysis = core_results[id].analysis])
    /\ UNCHANGED core_results

\* main.py 283-284
BgGeneratingPdf(id) ==
    /\ id \in DOMAIN background_tasks
    /\ BackgroundStep(id, "stored", "generating_pdf",
           [Entry(id) EXCEPT !.status = "generating_pdf",
                              !.progress = "Generating PDF report..."])
    /\ UNCHANGED core_results

\* main.py 287-302: the report is made and the job completed, or the report
\* generator raises and the except branch marks the job failed
BgReport(id) ==
    /\ id \in DOMAIN background_tasks
    /\ background_tasks[id].place = "generating_pdf"
    /\ \E outcome \in ReportOutcomes :
          IF outcome.raised
          THEN BackgroundStep(id, "generating_pdf", "finished",
                  FailedJob(Entry(id), outcome.error))
          ELSE BackgroundStep(id, "generating_pdf", "finished",
                  CompletedJob(Entry(id), ReportPath(outcome.timestamp),
                               outcome.timestamp))
    /\ UNCHANGED core_results

NextJobs ==
    \/ \E request \in ValidRequests \cup BlankRequests :
          StartAnalysis(request[1], request[2])
    \/ \E id \in AskedIds : GetAnalysisStatus(id)
    \/ \E id \in AskedIds : GetAnalysisResults(id)
    \/ \E id \in AskedIds, file_exists \in BOOLEAN : DownloadPdfReport(id, file_exists)
    \/ \E id \in JobIds : BgSearching(id)
    \/ \E id \in JobIds : BgRunCore(id)
    \/ \E id \in JobIds : BgAnalyzing(id)
    \/ \E id \in JobIds : BgStoreResults(id)
    \/ \E id \in JobIds : BgGeneratingPdf(id)
    \/ \E id \in JobIds : BgReport(id)

SpecJobs == InitJobs /\ [][NextJobs]_vars

\* the steps of the background task of job id
BackgroundTask(id) ==
    \/ BgSearching(id)
    \/ BgRunCore(id)
    \/ BgAnalyzing(id)
    \/ BgStoreResults(id)
    \/ BgGeneratingPdf(id)
    \/ BgReport(id)

\* The job store with its scheduling: a task added with add_task (main.py
\* 120-126) is run by the server after the response is sent, and each of its
\* steps is taken once it is due, the core run and the report generation
\* returning or raising included
SpecJobsFair ==
    InitJobs /\ [][NextJobs]_vars /\ \A id \in JobIds : WF_vars(BackgroundTask(id))

-----------------------------------------------------------------------------
(* The Page Extractor applied to URL lists built item by item              *)

InitScrape ==
    /\ pc = "urls"
    /\ business_idea = "" /\ location = ""
    /\ IdleParser
    /\ records = <<>>
    /\ IdleMock
    /\ IdleRun
    /\ IdleScrape
    /\ IdleRuns
    /\ IdleJobs

AddUrl(item) ==
    /\ pc = "urls"
    /\ Len(scrape_urls) < MaxUrls
    /\ scrape_urls' = Append(scrape_urls, item)
    /\ UNCHANGED <<pc, runsVars, jobVars, inputVars, parserVars, tripVars, mockVars,
                   runVars, fetch_outcomes, scraped_data, scrape_events>>

\* one call of scrape_competitor_list(scrape_urls)
ScrapeBatch ==
    /\ pc = "urls"
    /\ \E fetches \in [1..Len(scrape_urls) -> ScrapeOutcomes] :
          /\ fetch_outcomes' = fetches
          /\ scraped_data' = ScrapeCompetitorList(scrape_urls, fetches)
          /\ scrape_events' = ScrapeEvents(scrape_urls, fetches)
    /\ pc' = "scraped"
    /\ UNCHANGED <<runsVars, jobVars, inputVars, parserVars, tripVars, mockVars,
                   runVars, scrape_urls>>

NextScrape == (\E item \in UrlPool : AddUrl(item)) \/ ScrapeBatch

SpecScrape == InitScrape /\ [][NextScrape]_vars

-----------------------------------------------------------------------------
(* One run of research_competitors (agent.py 328-383)                      *)

Init ==
    /\ pc = "start"
    /\ \E input \in RunInputs : business_idea = input[1] /\ location = input[2]
    /\ IdleParser
    /\ records = <<>>
    /\ IdleMock
    /\ IdleRun
    /\ IdleScrape
    /\ IdleRuns
    /\ IdleJobs

\* agent.py 339-360: the prompt is built and agent.run entered
StartResearch ==
    /\ pc = "start"
    /\ pc' = "agent"
    /\ UNCHANGED <<sideVars, inputVars, parserVars, tripVars, mockVars, runVars>>

\* a round of the executor: the model asked for `tool`, which answered `obs`
ToolRound(tool, input, obs, reqs, response) ==
    /\ pc = "agent"
    /\ ShouldContinue(iterations)
    /\ iterations' = iterations + 1
    /\ tool_calls' = tool_calls + 1
    /\ last_tool' = tool
    /\ tool_input' = input
    /\ observation' = obs
    /\ requests' = reqs
    /\ search_response' = response
    /\ UNCHANGED <<pc, sideVars, inputVars, parserVars, tripVars, mockVars, error_msg,
                   hit_limit, result>>

CallGoogleSearch ==
    \E q \in {PromptQuery(business_idea, location), "best places"},
       response \in SearchResponses :
        ToolRound("google_search", q, GoogleSearchTool(q, response),
                  <<LiveSearchUrl(q)>>, response)

CallScrapeWebsites ==
    \E j \in ScrapeInputs :
        \E fetches \in [1..Len(JsonLoads(j).items) -> FetchOutcomes] :
            ToolRound("scrape_websites", j, ScrapeWebsitesTool(j, fetches).output,
                      ScrapeWebsitesTool(j, fetches).requests, "")

CallAnalyzeCompetitors ==
    \E llm \in LlmOutcomes :
        ToolRound("analyze_competitors", observation,
                  AnalyzeCompetitorsTool(observation, llm), <<>>, "")

\* a round in which the model's text was no call of one of the agent's tools:
\* it could not be parsed, or named a tool that does not exist.  With
\* handle_parsing_errors (agent.py 90) the executor runs its own stand-in
\* tool, whose answer is the observation; none of the agent's tools runs
FormatErrorRound ==
    \/ ToolRound("_Exception", "", ParsingErrorObservation, <<>>, "")
    \/ ToolRound("invalid_tool", "", "no_such_tool is not a valid tool", <<>>, "")

\* agent.py 360-372: agent.run returned run_output; the records are extracted
\* and the success dict is returned
ReturnSuccess(run_output) ==
    /\ analysis_text' = run_output
    /\ text_is_str' = TRUE
    /\ competitors' =
           ExtractCompetitorsFromAnalysis(run_output, TRUE, business_idea, location)
    /\ took_except' = FALSE
    /\ result' = SuccessResult(business_idea, location, run_output, competitors')
    /\ pc' = "done"

\* the model gave its final answer within the iteration bound
AgentFinish ==
    /\ pc = "agent"
    /\ ShouldContinue(iterations)
    /\ \E text \in FinalAnswers(observation) : ReturnSuccess(text)
    /\ UNCHANGED <<sideVars, inputVars, tripVars, mockVars, iterations, tool_calls, last_tool,
                   tool_input, observation, requests, search_response, error_msg,
                   hit_limit>>

\* the loop ended on max_iterations: the executor answers with its stop message
AgentStopped ==
    /\ pc = "agent"
    /\ ~ShouldContinue(iterations)
    /\ hit_limit' = TRUE
    /\ ReturnSuccess(StopMessage)
    /\ UNCHANGED <<sideVars, inputVars, tripVars, mockVars, iterations, tool_calls, last_tool,
                   tool_input, observation, requests, search_response, error_msg>>

\* agent.py 374-383: the model call of a round raised; the exception leaves
\* agent.run and research_competitors answers with the error dict
AgentRaises ==
    /\ pc = "agent"
    /\ ShouldContinue(iterations)
    /\ \E e \in ErrorMessages :
          /\ error_msg' = e
          /\ result' = ErrorResult(business_idea, location, e)
    /\ pc' = "done"
    /\ UNCHANGED <<sideVars, inputVars, parserVars, tripVars, mockVars, iterations, tool_calls,
                   last_tool, tool_input, observation, requests, search_response,
                   hit_limit>>

Next ==
    \/ StartResearch
    \/ CallGoogleSearch
    \/ CallScrapeWebsites
    \/ CallAnalyzeCompetitors
    \/ FormatErrorRound
    \/ AgentFinish
    \/ AgentStopped
    \/ AgentRaises

Spec == Init /\ [][Next]_vars

-----------------------------------------------------------------------------
(* Properties                                                              *)

Names(list) == [i \in 1..Len(list) |-> list[i].business_name]

RanksContiguous(list) == \A i \in 1..Len(list) : list[i].competitor_rank = i

\* the lines of a narrative that yield a name
NameLines(text) ==
    {k \in 1..Len(SplitLines(text)) : LineNames(SplitLines(text)[k]) # <<>>}

\* the position, among the lines that yield a name, of such a line k
Position(text, k) == 1 + Cardinality({j \in NameLines(text) : j < k})

\* C1: every list the Reverse Parser produces (normal path, default-names path
\* and except path) has at most 5 records, ranked 1, 2, ..., N in list order
C1_RanksContiguousAtMostFive ==
    Len(competitors) <= MaxCompetitors /\ RanksContiguous(competitors)

\* C1 witness: a narrative with more than five names was parsed and cut to five
C1_Witness ==
    /\ pc = "parsed"
    /\ text_is_str
    /\ Cardinality(NameLines(analysis_text)) > MaxCompetitors
    /\ Len(competitors) = MaxCompetitors
    /\ competitors[MaxCompetitors].competitor_rank = MaxCompetitors

\* C2 (as claimed): when the loop ends on its iteration bound, the result is a
\* success whose analysis is the Fallback Lead Generator's narrative for the
\* same business idea and location
C2_ExhaustionGivesFallbackNarrative ==
    (pc = "done" /\ hit_limit) =>
        /\ result.status = "success"
        /\ result.analysis =
               GenerateMockCompetitors(PromptQuery(business_idea, location))

\* C3: a run makes at most 10 tool-invocation rounds and then ends, whatever
\* the model answers: the round count never passes 10, every step of the loop
\* is one further round or the end of the run, after the tenth round the only
\* step is the end, and an ended run takes no step
C3_AtMostTenRoundsThenEnds ==
    /\ [](tool_calls <= max_iterations /\ iterations = tool_calls)
    /\ [][pc = "agent" => (tool_calls' = tool_calls + 1 \/ pc' = "done")]_vars
    /\ [][(pc = "agent" /\ tool_calls = max_iterations) => pc' = "done"]_vars
    /\ [][pc # "done"]_vars

\* C3 witness: a run that used all ten rounds and was stopped by the bound
C3_Witness ==
    pc = "done" /\ hit_limit /\ tool_calls = max_iterations /\ result.status = "success"

\* C4: an exception that escapes the run is answered, not raised: status
\* "error", the message, no competitors, an analysis text that contains the
\* message, and the inputs unchanged
C4_EscapedExceptionGivesErrorResult ==
    (pc = "done" /\ error_msg # "") =>
        /\ result.status = "error"
        /\ result.error = error_msg
        /\ result.competitors = <<>>
        /\ Contains(result.analysis, error_msg)
        /\ result.business_idea = business_idea
        /\ result.location = location

\* C4 witness: the model call raised in a later round of a run
C4_Witness ==
    /\ pc = "done"
    /\ error_msg = "API key not valid"
    /\ iterations > 0
    /\ result.status = "error"
    /\ result.competitors = <<>>

\* C5: a page-fetch input that is no JSON, or JSON but no list, is answered
\* with an error text as the observation and without any request; such a call
\* alone does not make the run end in status "error" (only an exception that
\* escaped the run does)
C5_MalformedScrapeInputIsObservation ==
    /\ (last_tool = "scrape_websites" /\ JsonLoads(tool_input).kind = "error") =>
          observation = "Error: Invalid JSON format for URLs" /\ requests = <<>>
    /\ (last_tool = "scrape_websites" /\ JsonLoads(tool_input).kind = "other") =>
          observation = "Error: Input must be a JSON list of URLs" /\ requests = <<>>
    /\ (pc = "done" /\ result.status = "error") => error_msg # ""

\* C5 witness: a run whose last round was a page-fetch call with valid JSON that
\* is no list, and which ended in success
C5_Witness ==
    /\ pc = "done"
    /\ last_tool = "scrape_websites"
    /\ JsonLoads(tool_input).kind = "other"
    /\ StartsWith(observation, "Error: ")
    /\ result.status = "success"

\* the names the parser can itself produce: trimmed, longer than two
\* characters, on one line, without " - "
RecoverableName(n) ==
    /\ Strip(n) = n
    /\ Len(n) > MinNameLen
    /\ ~Contains(n, " - ")
    /\ ~Contains(n, Newline)

WrittenNumber(line) == CHOOSE d \in 0..9 : DigitStr(d) = Char(line, 1)

\* C7 (as claimed): the rank of a record parsed from a numbered line is the
\* number written on that line
C7_RankIsWrittenNumber ==
    (pc = "parsed" /\ text_is_str) =>
        \A k \in NameLines(analysis_text) :
            LET line == Strip(SplitLines(analysis_text)[k])
            IN  ( /\ Char(line, 1) \in Digits
                  /\ Char(line, 2) = "."
                  /\ Position(analysis_text, k) <= MaxCompetitors ) =>
                competitors[Position(analysis_text, k)].competitor_rank
                    = WrittenNumber(line)

\* C7 (amended): the line "3. Monal Restaurant - Popular Pakistani cuisine"
\* gives the name "Monal Restaurant"; the rank of a record is the position of
\* its line among the lines that yield a name, whatever number is written
C7_RankIsPosition ==
    (pc = "parsed" /\ text_is_str) =>
        \A k \in NameLines(analysis_text) :
            LET p == Position(analysis_text, k)
            IN  p <= MaxCompetitors =>
                  /\ competitors[p].competitor_rank = p
                  /\ SplitLines(analysis_text)[k] = MonalLine =>
                        competitors[p].business_name = "Monal Restaurant"

\* C7 witness: the Monal line alone: name "Monal Restaurant", rank 1, written 3
C7_Witness ==
    /\ pc = "parsed"
    /\ analysis_text = MonalLine
    /\ Len(competitors) = 1
    /\ competitors[1].business_name = "Monal Restaurant"
    /\ competitors[1].competitor_rank = 1
    /\ WrittenNumber(MonalLine) = 3

\* C8: when no line of the narrative yields a name, the records are those
\* built from _get_default_competitors for the same business idea and location
C8_NoNamesGivesDefaultRecords ==
    (pc = "parsed" /\ text_is_str /\ NameLines(analysis_text) = {}) =>
        /\ Names(competitors) = GetDefaultCompetitors(business_idea, location)
        /\ \A i \in 1..Len(competitors) :
              /\ competitors[i].category = business_idea
              /\ competitors[i].location = location

\* C8 witness: a narrative with a numbered line whose name was discarded
C8_Witness ==
    /\ pc = "parsed"
    /\ text_is_str
    /\ NameLines(analysis_text) = {}
    /\ \E k \in 1..Len(SplitLines(analysis_text)) :
          IsCandidateLine(Strip(SplitLines(analysis_text)[k]))
    /\ business_idea = "Gym"
    /\ Names(competitors) = default_competitors_db["gym"]["default"]

\* C9: every record's url is a non-empty string: the table's entry when the
\* name is in the table of the path that built the record, else the search
\* URL made from the name
C9_UrlAlwaysResolved ==
    \A i \in 1..Len(competitors) :
        LET r == competitors[i]
            table == IF took_except THEN default_website_mapping ELSE website_mapping
        IN  /\ r.url # ""
            /\ IF r.business_name \in DOMAIN table
               THEN r.url = table[r.business_name]
               ELSE /\ StartsWith(r.url, SearchUrlPrefix)
                    /\ Len(r.url) = Len(SearchUrlPrefix) + Len(r.business_name)
                    /\ ~Contains(r.url, " ")

\* C9 witness: one record resolved by the table, one by a search URL
C9_Witness ==
    /\ pc = "parsed"
    /\ \E i \in 1..Len(competitors) : competitors[i].url = website_mapping["Monal Restaurant"]
    /\ \E i \in 1..Len(competitors) :
          /\ competitors[i].business_name = "Dr. Who"
          /\ competitors[i].url = "https://www.google.com/search?q=Dr.+Who"

\* the lines of a narrative that begin with a digit
RankedLines(text) ==
    SelectSeq(SplitLines(text), LAMBDA l : l # "" /\ Char(l, 1) \in Digits)

\* C10: for every query the generator gives exactly 5 names, and its narrative
\* lists them on exactly 5 numbered lines, numbered 1..5 in order; the
\* structured default list has exactly 5 names too
C10_FiveNamesRankedOneToFive ==
    pc = "generated" =>
        LET ranked == RankedLines(mock_results)
            names == MockNames(query)
        IN  /\ Len(names) = 5
            /\ Len(ranked) = 5
            /\ \A i \in 1..5 :
                  StartsWith(ranked[i], DigitStr(i) \o ". " \o names[i] \o " - ")
            /\ Len(default_names) = 5

\* C10 witness: a query that matches no category and no location
C10_Witness ==
    /\ pc = "generated"
    /\ query = "plumber"
    /\ Len(RankedLines(mock_results)) = 5
    /\ StartsWith(RankedLines(mock_results)[5], "5. Morning Roast Coffee - ")

\* the categories in the order the generator tries them, with their keywords
CategoryKeywords ==
    <<[key |-> "coffee", words |-> {"coffee", "caf^", "cafe"}],
      [key |-> "restaurant", words |-> {"restaurant", "food", "dining"}],
      [key |-> "gym", words |-> {"gym", "fitness"}],
      [key |-> "retail", words |-> {"retail", "store", "shop"}]>>

CategoryMatches(q, i) == \E w \in CategoryKeywords[i].words : Contains(Lower(q), w)

\* the first category, in that order, one of whose keywords occurs in the
\* query whatever its case; coffee when none does
FirstMatchingCategory(q) ==
    IF \E i \in 1..Len(CategoryKeywords) : CategoryMatches(q, i)
    THEN CategoryKeywords[CHOOSE i \in 1..Len(CategoryKeywords) :
                             /\ CategoryMatches(q, i)
                             /\ \A j \in 1..(i - 1) : ~CategoryMatches(q, j)].key
    ELSE "coffee"

\* the names written on the numbered lines of a narrative
ListedNames(text) ==
    LET ranked == RankedLines(text)
    IN  [i \in 1..Len(ranked) |-> BeforeFirst(AfterFirst(ranked[i], ". "), " - ")]

\* C11: the narrative lists the names of the table of the first category, in
\* the order coffee, restaurant, gym, retail, that has a keyword in the
\* lower-cased query (coffee when none has), for the query's city; the query
\* "coffee shop competitors Islamabad" yields the coffee/Islamabad names
C11_FirstCategoryWins ==
    pc = "generated" =>
        /\ ListedNames(mock_results)
              = mock_competitors_db[FirstMatchingCategory(query)][MockLocation(query).key]
        /\ query = "coffee shop competitors Islamabad" =>
              ListedNames(mock_results)
                = <<"Espresso Lounge F-7", "Coffee Wagera", "Caf^ Lazeez",
                    "Coffee Bean & Tea Leaf", "Beans & Brews">>

\* C11 witness: the scenario query, which has a coffee and a retail keyword
C11_Witness ==
    /\ pc = "generated"
    /\ query = "coffee shop competitors Islamabad"
    /\ CategoryMatches(query, 1) /\ CategoryMatches(query, 4)
    /\ ListedNames(mock_results)[1] = "Espresso Lounge F-7"

\* C12: the names listed in the narrative generated for the query
\* "{business_idea} competitors {location}" are the names of the structured
\* fallback list of (business_idea, location), in the same order
C12_NarrativeNamesAreDefaultNames ==
    (pc = "generated" /\ query = PromptQuery(business_idea, location)) =>
        ListedNames(mock_results) = default_names

\* the positions of the batch whose request failed at network level
FailedFetches ==
    {k \in 1..Len(scraped_data) :
        /\ scrape_urls[k].is_str
        /\ ~fetch_outcomes[k].ok
        /\ fetch_outcomes[k].request_exception}

OtherFields == {"description", "services", "contact_info", "address", "pricing_info"}

\* C13 as stated: after a failed request the result has the requested url,
\* business_name "Unknown", a non-empty error, and "not available" (in any
\* case) in each of description, services, contact_info, address, pricing_info
C13_FailedFetchAllNotAvailable ==
    pc = "scraped" =>
        \A k \in FailedFetches :
            /\ scraped_data[k].url = NormalizeUrl(scrape_urls[k].text)
            /\ scraped_data[k].business_name = "Unknown"
            /\ scraped_data[k].error # ""
            /\ \A f \in OtherFields : Lower(scraped_data[k][f]) = "not available"

\* C13: after a failed request the result has the requested url, business_name
\* "Unknown", an error made of "Failed to scrape: " and the failure's message,
\* description "Unable to extract information", services "Unable to extract
\* services" and "Not available" in contact_info, address and pricing_info
C13_FailedFetchSentinels ==
    pc = "scraped" =>
        /\ Len(scraped_data) = Len(scrape_urls)
        /\ \A k \in FailedFetches :
              /\ scraped_data[k].url = NormalizeUrl(scrape_urls[k].text)
              /\ scraped_data[k].business_name = "Unknown"
              /\ scraped_data[k].error = "Failed to scrape: " \o fetch_outcomes[k].error
              /\ scraped_data[k].description = "Unable to extract information"
              /\ scraped_data[k].services = "Unable to extract services"
              /\ \A f \in {"contact_info", "address", "pricing_info"} :
                    scraped_data[k][f] = "Not available"

\* C13 witness: a batch whose second request got a 404
C13_Witness ==
    /\ pc = "scraped"
    /\ 2 \in FailedFetches
    /\ fetch_outcomes[2].error = "404 Client Error: Not Found"
    /\ scraped_data[2].url = "https://khyber-pass.example.org"
    /\ scraped_data[2].business_name = "Unknown"

ExtractionFields ==
    {"business_name", "description", "services", "contact_info", "address",
     "pricing_info"}

\* the value a field takes on a page on which its chain finds nothing
ChainEnd(f, url) ==
    CASE f = "business_name" -> DomainName(url)
      [] f = "description" -> "No description available"
      [] f = "services" -> "Services not specified"
      [] f = "contact_info" -> "Contact information not available"
      [] f = "address" -> "Address not available"
      [] f = "pricing_info" -> "Pricing information not available"

\* C14: every result of the batch, whether the page was parsed, the request
\* failed or the processing raised, has all six fields and each is a string;
\* on a page where nothing is found each field is its chain's last value
C14_SixFieldsAlwaysPresent ==
    pc = "scraped" =>
        \A k \in 1..Len(scraped_data) :
            /\ ExtractionFields \subseteq DOMAIN scraped_data[k]
            /\ \A f \in ExtractionFields : scraped_data[k][f] \in STRING
            /\ (scrape_urls[k].is_str /\ fetch_outcomes[k].ok
                /\ fetch_outcomes[k].page = EmptyPage) =>
                  \A f \in ExtractionFields :
                      scraped_data[k][f] = ChainEnd(f, scraped_data[k].url)

\* C14 witness: a batch with an item that is no string, whose processing
\* raised, and an empty page
C14_Witness ==
    /\ pc = "scraped"
    /\ Len(scraped_data) = 2
    /\ ~scrape_urls[1].is_str
    /\ scraped_data[1].business_name = "Error"
    /\ scrape_urls[2].is_str
    /\ fetch_outcomes[2].ok /\ fetch_outcomes[2].page = EmptyPage
    /\ scraped_data[2].business_name = "Monal"

\* C15: whatever the live request of a lead lookup met (a 2xx response, a
\* timeout, a connection error, a non-2xx status, any other exception), the
\* round ends with the generator's narrative for the query as its observation,
\* the text a successful request gives, and the run goes on
C15_LookupAlwaysAnswersWithFallback ==
    last_tool = "google_search" =>
        /\ search_response \in SearchResponses
        /\ observation = GenerateMockCompetitors(tool_input)
        /\ observation = GoogleSearchTool(tool_input, "ok")
        /\ requests = <<LiveSearchUrl(tool_input)>>
        /\ result.status = "error" => error_msg \in ErrorMessages

\* C15 witness: a lead lookup whose live request failed at network level
C15_Witness ==
    /\ pc = "agent"
    /\ last_tool = "google_search"
    /\ search_response = "request_exception"
    /\ tool_input = "coffee shop competitors Islamabad"
    /\ StartsWith(observation, "Local Coffee Shop Competitors in Islamabad:")

\* C16 (as claimed) requires in particular that the first tool call of a run
\* is a lead lookup: a page fetch with no lookup before it, or an analysis call
\* with no page fetch before it, breaks the order
C16_LookupThenFetchThenAnalysis ==
    tool_calls = 1 => last_tool \notin {"scrape_websites", "analyze_competitors"}

\* C18: a result with status 'success' carries the extracted records, at least
\* 1 and at most 5 of them, whatever narrative agent.run returned
C18_SuccessHasCompetitors ==
    (pc = "done" /\ result.status = "success") =>
        /\ result.competitors = competitors
        /\ Len(result.competitors) \in 1..MaxCompetitors
        /\ result.analysis = analysis_text

\* C18 witness: the run that returned the stop message and the run that
\* returned an empty narrative both end with the five default records
C18_Witness ==
    /\ pc = "done"
    /\ result.status = "success"
    /\ result.analysis \in {StopMessage, ""}
    /\ ExtractNames(result.analysis) = <<>>
    /\ Len(result.competitors) = 5

\* the runs whose agent has been built
AgentBuilt == {r \in RunIds : run_pc[r] \in {"created", "running", "done"}}

\* C17: under every interleaving of the runs, each run's agent has a memory
\* object of its own, the chat history a run loads holds no turn of another
\* run (it is empty), the memory of a finished run holds that run's turn and
\* nothing else, and a run's result is made of its own inputs and the answer
\* or exception it received
C17_RunsShareNoState ==
    pc = "runs" =>
        /\ \A r1, r2 \in AgentBuilt : r1 # r2 => agent_memory[r1] # agent_memory[r2]
        /\ \A r \in AgentBuilt :
              /\ agent_memory[r] \in 1..Len(memories)
              /\ contexts[r] = <<>>
              /\ run_pc[r] # "done" => memories[agent_memory[r]] = <<>>
        /\ \A r \in RunIds : run_pc[r] = "done" =>
              /\ run_result[r].business_idea = run_request[r][1]
              /\ run_result[r].location = run_request[r][2]
              /\ run_result[r].status = "success" =>
                    /\ memories[agent_memory[r]] =
                          <<[input |-> ResearchPrompt(run_request[r][1], run_request[r][2]),
                             output |-> run_result[r].analysis]>>
                    /\ run_result[r].competitors =
                          ExtractCompetitorsFromAnalysis(run_result[r].analysis, TRUE,
                              run_request[r][1], run_request[r][2])
              /\ run_result[r].status = "error" => memories[agent_memory[r]] = <<>>

\* C17 witness: the first run has saved its turn and the second, with other
\* inputs, is inside agent.run
C17_Witness ==
    /\ pc = "runs"
    /\ run_pc[1] = "done" /\ run_result[1].status = "success"
    /\ Len(memories[agent_memory[1]]) = 1
    /\ run_pc[2] = "running"
    /\ run_request[1] # run_request[2]
    /\ contexts[2] = <<>>

\* C19: a request to the results or the download endpoint is answered with
\* 404 when the id is unknown and with 400, carrying none of the stored data,
\* when the job is in any status but 'completed'; only a completed job gets
\* its data or its report
C19_DataOnlyWhenCompleted ==
    [][\A id \in AskedIds :
          (GetAnalysisResults(id) \/ \E file_exists \in BOOLEAN :
                                        DownloadPdfReport(id, file_exists)) =>
              /\ id \notin DOMAIN analysis_results => http_response'.code = 404
              /\ (id \in DOMAIN analysis_results
                  /\ analysis_results[id].status # "completed") =>
                    /\ http_response'.code = 400
                    /\ DOMAIN http_response' = {"endpoint", "id", "code", "detail"}
              /\ http_response'.code = 200 =>
                    /\ id \in DOMAIN analysis_results
                    /\ analysis_results[id].status = "completed"]_vars

\* C19 witness: the results of a job were asked for while its competitors were
\* stored and its report was not made yet, and the answer was a 400
C19_Witness ==
    /\ pc = "jobs"
    /\ http_response.endpoint = "results"
    /\ http_response.id = 1
    /\ http_response.code = 400
    /\ analysis_results[1].status = "generating_pdf"
    /\ analysis_results[1].competitors # <<>>

\* C20 (as claimed): start_analysis called with a blank business_idea or
\* location answers with status 400, stores no job and schedules no task
C20_BlankRequestRejectedWith400 ==
    [][\A request \in BlankRequests :
          StartAnalysis(request[1], request[2]) =>
              /\ http_response'.code = 400
              /\ UNCHANGED <<analysis_results, background_tasks>>]_vars

-----------------------------------------------------------------------------
(* The reverse parser: cleaning and choice of the name                     *)

\* C21 (as claimed): every name the parser recovered from a line of the
\* narrative contains neither " - " nor " ("
C21_NoDescriptionMarkInName ==
    (pc = "parsed" /\ text_is_str /\ ExtractNames(analysis_text) # <<>>) =>
        \A i \in 1..Len(competitors) :
            /\ ~Contains(competitors[i].business_name, " - ")
            /\ ~Contains(competitors[i].business_name, " (")

\* the name a narrative line contributes according to the rule of C22, as a
\* list of none or one: the trimmed line must begin with a digit or the
\* bullet; the name part is what follows the first ". " if there is one,
\* else what follows the first bullet-space, else the line is skipped
RuleName(raw_line) ==
    LET t == Strip(raw_line)
        begins == SubSeq(t, 1, 1) \in Digits \cup {Bullet}
        first(sep) == CHOOSE p \in 1..Len(t) :
                         /\ SubSeq(t, p, p + Len(sep) - 1) = sep
                         /\ \A j \in 1..(p - 1) : SubSeq(t, j, j + Len(sep) - 1) # sep
        after(sep) == SubSeq(t, first(sep) + Len(sep), Len(t))
        part == IF Contains(t, ". ") THEN <<after(". ")>>
                ELSE IF Contains(t, Bullet \o " ") THEN <<after(Bullet \o " ")>>
                ELSE <<>>
    IN  IF t = "" \/ ~begins \/ part = <<>> THEN <<>>
        ELSE IF NameSurvives(CleanName(part[1])) THEN <<CleanName(part[1])>>
        ELSE <<>>

\* the names of all lines by the rule of C22, in line order
RuleNames(text) ==
    LET lines == SplitLines(text)
        F[i \in 0..Len(lines)] ==
            IF i = 0 THEN <<>> ELSE F[i - 1] \o RuleName(lines[i])
    IN  F[Len(lines)]

\* C22: the names of the records the parser built from a narrative are the
\* names its lines contribute by the rule (digit or bullet at the start; the
\* text after the first ". ", else after the first bullet-space, else
\* nothing), in line order, cut to the first five; when no line contributes a
\* name the default names stand in
C22_NamesFollowLineRule ==
    (pc = "parsed" /\ text_is_str) =>
        Names(competitors) =
            IF RuleNames(analysis_text) = <<>>
            THEN Take(GetDefaultCompetitors(business_idea, location), MaxCompetitors)
            ELSE Take(RuleNames(analysis_text), MaxCompetitors)

\* C22 witness: a bullet line that contains ". " gave the text after its
\* ". ", a digit line without ". " was skipped, and a later line gave the
\* second name
C22_Witness ==
    /\ pc = "parsed"
    /\ text_is_str
    /\ SplitLines(analysis_text) =
           <<"* Step 1. Khyber Pass", "2) Paren Shop", PlainLine>>
    /\ Names(competitors) = <<"Khyber Pass", "Beans & Brews">>

-----------------------------------------------------------------------------
(* The batch scraper: results and side effects                             *)

\* the url scrape_competitor_list holds for item k when it builds k's result
BatchUrl(k) ==
    IF scrape_urls[k].is_str THEN NormalizeUrl(scrape_urls[k].text)
    ELSE scrape_urls[k].text

\* item k met an exception that scrape_website does not catch
UnexpectedAt(k) ==
    scrape_urls[k].is_str /\ ScrapeWebsiteRaises(fetch_outcomes[k])

\* C23: scrape_competitor_list returns one result per item of its input, in
\* input order; an item whose processing raised an unexpected exception has
\* the error-marked result with the exception's message, and every other item,
\* before or after it, has the result of its own fetch
C23_OneResultPerUrlInOrder ==
    pc = "scraped" =>
        /\ Len(scraped_data) = Len(scrape_urls)
        /\ \A k \in 1..Len(scrape_urls) :
              /\ scraped_data[k].url = BatchUrl(k)
              /\ UnexpectedAt(k) =>
                    /\ scraped_data[k].business_name = "Error"
                    /\ scraped_data[k].error = fetch_outcomes[k].error
              /\ (scrape_urls[k].is_str /\ fetch_outcomes[k].ok) =>
                    /\ "error" \notin DOMAIN scraped_data[k]
                    /\ scraped_data[k].business_name =
                           ExtractBusinessName(fetch_outcomes[k].page, BatchUrl(k))
              /\ (scrape_urls[k].is_str /\ ~fetch_outcomes[k].ok
                  /\ fetch_outcomes[k].request_exception) =>
                    scraped_data[k].business_name = "Unknown"

\* C23 witness: the first URL of a batch raised an unexpected exception and
\* the second was still fetched and extracted
C23_Witness ==
    /\ pc = "scraped"
    /\ Len(scrape_urls) = 2
    /\ UnexpectedAt(1)
    /\ scraped_data[1].business_name = "Error"
    /\ scrape_urls[2].is_str
    /\ fetch_outcomes[2].ok
    /\ Len(scraped_data) = 2
    /\ "error" \notin DOMAIN scraped_data[2]

\* the positions of the requests among the side effects of the batch
GetPositions == {p \in 1..Len(scrape_events) : scrape_events[p].op = "get"}

\* the URL items of the batch
UrlItems == {k \in 1..Len(scrape_urls) : scrape_urls[k].is_str}

\* C24: a batch makes exactly one request per URL, in input order, and the
\* side effect just before each request is a sleep of the scraper's delay, so
\* there are as many sleeps as requests and no two requests are adjacent; a
\* URL whose fetch failed has its sleep and its request like any other
C24_EachRequestPrecededByDelay ==
    pc = "scraped" =>
        /\ Cardinality(GetPositions) = Cardinality(UrlItems)
        /\ Len(scrape_events) = 2 * Cardinality(UrlItems)
        /\ \A p \in GetPositions :
              /\ p > 1
              /\ scrape_events[p - 1] = [op |-> "sleep", seconds |-> ScraperDelay]
        /\ \A k \in UrlItems :
              LET n == Cardinality({j \in UrlItems : j <= k})
              IN  scrape_events[2 * n] = [op |-> "get", url |-> BatchUrl(k)]

\* C24 witness: a batch of two URLs whose first fetch failed made the four
\* side effects sleep, request, sleep, request
C24_Witness ==
    /\ pc = "scraped"
    /\ UrlItems = {1, 2}
    /\ ~fetch_outcomes[1].ok
    /\ Len(scrape_events) = 4
    /\ scrape_events[3].op = "sleep"
    /\ scrape_events[4].op = "get"

-----------------------------------------------------------------------------
(* The job store: the life of a job                                        *)

\* the stages a job is in before it ends
NonTerminal == {"started", "searching", "analyzing", "generating_pdf"}

\* the changes of status C25 allows
ForwardMoves ==
    {<<"started", "searching">>, <<"searching", "analyzing">>,
     <<"analyzing", "generating_pdf">>, <<"generating_pdf", "completed">>}
    \cup {<<s, "failed">> : s \in NonTerminal}

\* C25: whatever step a request or a background task takes, the status of a
\* stored job either stays as it is or makes one of the moves started ->
\* searching -> analyzing -> generating_pdf -> completed or non-terminal ->
\* failed; so the status of a completed or failed job never changes again
C25_StatusMovesForward ==
    [][\A id \in DOMAIN analysis_results :
          /\ id \in DOMAIN analysis_results'
          /\ analysis_results'[id].status # analysis_results[id].status =>
                <<analysis_results[id].status, analysis_results'[id].status>>
                    \in ForwardMoves]_vars

\* C25 witness: one job went all the way to completed and another one failed
\* while its report was generated, with both tasks at their end
C25_Witness ==
    /\ pc = "jobs"
    /\ Len(analysis_results) = 2
    /\ analysis_results[1].status = "completed"
    /\ analysis_results[2].status = "failed"
    /\ analysis_results[2].competitors # <<>>
    /\ \A id \in 1..2 : background_tasks[id].place = "finished"

\* C26: a job whose core run returned the error dict is failed with the core's
\* error message, its competitors, analysis, pdf_path and completed_at are as
\* start_analysis initialized them, and its task has ended; this holds in
\* every later state, so the job never becomes completed and no report is made
C26_CoreErrorFailsJob ==
    \A id \in DOMAIN core_results :
        core_results[id].status = "error" =>
            /\ analysis_results[id].status = "failed"
            /\ analysis_results[id].error = <<core_results[id].error>>
            /\ analysis_results[id].competitors = <<>>
            /\ analysis_results[id].analysis = ""
            /\ analysis_results[id].pdf_path = <<>>
            /\ analysis_results[id].completed_at = <<>>
            /\ background_tasks[id].place = "finished"

\* C26 witness: the core run of job 1 returned the error dict, and a later
\* status request for the job answered failed with the core's message
C26_Witness ==
    /\ pc = "jobs"
    /\ Len(core_results) >= 1
    /\ core_results[1].status = "error"
    /\ http_response.endpoint = "status"
    /\ http_response.code = 200
    /\ http_response.id = 1
    /\ http_response.status = "failed"
    /\ http_response.error = <<"API key not valid">>

\* C27: under the scheduling of the background tasks, every job start_analysis
\* stored eventually has status completed or failed; and a completed job
\* always has its pdf_path and its completed_at set
C27_EveryJobEnds ==
    /\ \A id \in JobIds :
          (id \in DOMAIN analysis_results) ~>
              (/\ id \in DOMAIN analysis_results
               /\ analysis_results[id].status \in {"completed", "failed"})
    /\ [](\A id \in DOMAIN analysis_results :
             analysis_results[id].status = "completed" =>
                 /\ analysis_results[id].pdf_path # <<>>
                 /\ analysis_results[id].completed_at # <<>>)

\* C27 witness: two jobs were started before either task took a step, and
\* both have ended, one of them completed with its report's path and stamp
C27_Witness ==
    /\ pc = "jobs"
    /\ Len(analysis_results) = 2
    /\ analysis_results[1].status = "failed"
    /\ analysis_results[1].competitors = <<>>
    /\ analysis_results[2].status = "completed"
    /\ analysis_results[2].pdf_path = <<ReportPath("20240101_120000")>>
    /\ analysis_results[2].completed_at = <<"20240101_120000">>

\* C28: every step of the background task of a job leaves the entries of all
\* other jobs as they are; and in every state the entry of a job carries its
\* own id, the business_idea and location its task was started with, and as
\* competitors and analysis either the initial empty values or what its own
\* core run returned
C28_TaskWritesOwnEntryOnly ==
    /\ [][\A id \in DOMAIN background_tasks :
             BackgroundTask(id) =>
                 \A other \in DOMAIN analysis_results :
                     other # id => analysis_results'[other] = analysis_results[other]]_vars
    /\ [](\A id \in DOMAIN analysis_results :
             /\ analysis_results[id].id = id
             /\ analysis_results[id].business_idea = background_tasks[id].business_idea
             /\ analysis_results[id].location = background_tasks[id].location
             /\ \/ /\ analysis_results[id].competitors = <<>>
                   /\ analysis_results[id].analysis = ""
                \/ /\ core_results[id].status = "success"
                   /\ analysis_results[id].competitors = core_results[id].competitors
                   /\ analysis_results[id].analysis = core_results[id].analysis)

\* C28 witness: two jobs for different requests are in flight at different
\* stages, each with the competitors of its own core run stored
C28_Witness ==
    /\ pc = "jobs"
    /\ Len(analysis_results) = 2
    /\ analysis_results[1].business_idea # analysis_results[2].business_idea
    /\ analysis_results[1].status = "analyzing"
    /\ analysis_results[2].status = "generating_pdf"
    /\ analysis_results[1].competitors # <<>>
    /\ analysis_results[2].competitors # <<>>
    /\ analysis_results[1].competitors # analysis_results[2].competitors

-----------------------------------------------------------------------------
(* The generator's narrative read back by the parser                       *)

\* C29: the records the parser builds from the generator's narrative for a
\* query carry exactly the five names of the narrative's ranked list, in
\* order, with ranks 1..5; the bullet lines after the list add no name
C29_ParserRecoversRankedNames ==
    pc = "reparsed" =>
        LET ranked == RankedLines(mock_results)
        IN  /\ Len(competitors) = 5
            /\ Names(competitors) = MockNames(query)
            /\ RanksContiguous(competitors)
            /\ \A i \in 1..5 :
                  StartsWith(ranked[i],
                             DigitStr(i) \o ". " \o competitors[i].business_name \o " - ")

\* C29 witness: the narrative for a coffee query in Islamabad was read back;
\* its bullet lines are candidate lines too, so more than five lines yield a
\* name, and the records are the five ranked names
C29_Witness ==
    /\ pc = "reparsed"
    /\ query = "Coffee ISLAMABAD"
    /\ Len(ExtractNames(mock_results)) > 5
    /\ Names(competitors) =
          <<"Espresso Lounge F-7", "Coffee Wagera", "Caf^ Lazeez",
            "Coffee Bean & Tea Leaf", "Beans & Brews">>

-----------------------------------------------------------------------------
(* Website resolution on the two record-building paths                     *)

\* C30 (as claimed): the url of every record the parser built is the url both
\* paths assign to the record's name: a record of the normal path has the url
\* the exception fallback would give its name, and a record of the exception
\* fallback has the url the normal path would give its name
C30_SameUrlOnBothPaths ==
    pc = "parsed" =>
        \A i \in 1..Len(competitors) :
            /\ competitors[i].url = ResolveWebsite(competitors[i].business_name)
            /\ competitors[i].url = ResolveDefaultWebsite(competitors[i].business_name)
====
